---- MODULE Spec2Model ----
(***************************************************************************)
(* Model of the argus HR backend: the six entity repositories (users,      *)
(* tasks, attendances, salaries, bonuses, files) over one relational       *)
(* store, the list handlers that page through them, the router with its    *)
(* AuthContext middleware and token parser, and the handlers' answers.     *)
(*                                                                         *)
(* One behaviour is about one table (ent); the tables are independent.     *)
(* A repository call runs in the steps the store sees: building the        *)
(* statement and opening the transaction, executing the statement,         *)
(* committing.  A step that talks to the store may fail.                   *)
(***************************************************************************)
EXTENDS Integers, Sequences, FiniteSets, TLC

VARIABLES
    ent,        \* the table this behaviour is about
    table,      \* committed rows of the table
    nextId,     \* the table's id sequence
    now,        \* the wall clock (time.Now)
    calls,      \* per client: the repository call in flight
    result,     \* per client: what the last finished call returned
    ops,        \* repository calls started so far
    deleted,    \* ids a successful Delete removed
    created,    \* id -> entity a successful Create returned
    touched,    \* ids a committed Update has changed since their Create
    walk,       \* pages collected by consecutive List calls with fixed parameters
    router,     \* the route registrar of ent: enforcer, policies added, routes, log
    ctx         \* the gin context of the request being served

vars == <<ent, table, nextId, now, calls, result, ops, deleted, created, touched, walk,
          router, ctx>>

----------------------------------------------------------------------------
(* Bounds *)

MaxRows == 2        \* rows a table may hold
MaxOps == 2         \* repository calls a behaviour starts
MaxClock == 2       \* clock values 1..MaxClock
MaxPage == 2        \* page numbers a list walk asks for, besides the huge one
MaxLimit == 2       \* limit values a list request carries, besides the default

Variants == {1, 2}  \* each column has two request values

----------------------------------------------------------------------------
(* Values *)

Null == <<>>
Some(v) == <<v>>
IsNull(x) == x = <<>>
Unwrap(x) == x[1]

\* an error value: the Go type the driver or the repository made it with, the
\* SQLSTATE when the store reported one, and the parts of its message, outermost first
Err(type, code, msg) == [type |-> type, code |-> code, msg |-> msg]
NoErr == Err("nil", "", <<>>)
ErrNoFields == Err("error", "", <<"no fields to update">>)
ErrInvalidPhone == Err("error", "", <<"invalid phone number format">>)
ErrFilterRequired == Err("error", "", <<"at least one filter parameter is required">>)
ErrHash == Err("error", "", <<"failed to hash password">>)
\* errors as the driver (pgx/v5) hands them to the repository
ErrNoRows == Err("pgx.ErrNoRows", "", <<"no rows in result set">>)
DbFailure == Err("error", "08006", <<"connection failure">>)
ScanFailure == Err("error", "", <<"can't scan into dest">>)
UniqueViolation ==
    Err("pgx/v5/pgconn.PgError", "23505", <<"duplicate key value violates unique constraint">>)
ErrorConflict == Err("error", "", <<"conflict">>)

\* fmt.Errorf("<prefix>: %w", err)
Wrap(prefix, err) == Err("error", err.code, <<prefix>> \o err.msg)

Entities == {"users", "tasks", "attendances", "salaries", "bonuses", "files"}

\* the message of the error a repository returns when a statement affected no row
NotFoundMsg(e) ==
    CASE e = "users" -> "no user found with ID"
      [] e = "tasks" -> "no task found with ID"
      [] e = "attendances" -> "no attendance record found with ID"
      [] e = "salaries" -> "no salary found with ID"
      [] e = "bonuses" -> "no bonus found with ID"
      [] e = "files" -> "no file found with ID"

ErrNotFound(e) == Err("error", "", <<NotFoundMsg(e)>>)

\* the entity's name in the repositories' messages
Singular(e) ==
    CASE e = "users" -> "user"
      [] e = "tasks" -> "task"
      [] e = "attendances" -> "attendance"
      [] e = "salaries" -> "salary"
      [] e = "bonuses" -> "bonus"
      [] e = "files" -> "file"

\* "<entity> ID is required for update" and "... for deletion"
ErrIDRequired(e, what) == Err("error", "", <<Singular(e), " ID is required for ", what>>)

\* columns every Create writes from the request
RequiredCols(e) ==
    CASE e = "users" -> {"first_name", "last_name", "role", "email", "phone", "hashed_password"}
      [] e = "tasks" -> {"admin_id", "title", "status", "priority"}
      [] e = "attendances" -> {"user_id", "date", "intime", "status"}
      [] e = "salaries" -> {"amount", "user_id", "admin_id", "pay_date", "currency", "status"}
      [] e = "bonuses" -> {"user_id", "amount", "currency"}
      [] e = "files" -> {"name"}

\* nullable columns a Create writes only when the request supplies them
OptionalCols(e) ==
    CASE e = "users" -> {"photo_url", "bio"}
      [] e = "tasks" -> {"assignedto", "description", "duedate"}
      [] e = "attendances" -> {"outtime"}
      [] e = "salaries" -> {"updateradminid"}
      [] e = "bonuses" -> {"superadminid", "reason"}
      [] e = "files" -> {"taskid"}

\* nullable columns no Create writes
UnsetCols(e) == IF e = "users" THEN {"hashed_refresh_token"} ELSE {}

Cols(e) == RequiredCols(e) \cup OptionalCols(e) \cup UnsetCols(e)

\* the pointer fields of the Update request
UpdatableCols(e) == Cols(e)

\* columns the store keeps unique
UniqueCols(e) == IF e = "users" THEN {"email", "phone"} ELSE {}

\* columns the search text is matched against
SearchCols(e) ==
    CASE e = "users" -> {"first_name", "last_name", "email", "phone"}
      [] e = "tasks" -> {"title", "description", "status", "priority"}
      [] e = "attendances" -> {"status"}
      [] e = "salaries" -> {"currency", "status"}
      [] e = "bonuses" -> {"reason"}
      [] e = "files" -> {"name"}

\* query parameters the list handler turns into equality filters
FilterCols(e) ==
    CASE e = "users" -> {"role"}
      [] e = "tasks" -> {"assignedto", "admin_id", "status", "priority"}
      [] e = "attendances" -> {"user_id", "date", "status"}
      [] e = "salaries" -> {"user_id", "admin_id", "status", "pay_date"}
      [] e = "bonuses" -> {"user_id", "superadminid"}
      [] e = "files" -> {"taskid"}

NumericCols ==
    {"admin_id", "user_id", "assignedto", "updateradminid", "superadminid", "taskid",
     "amount", "date", "intime", "outtime", "pay_date", "duedate"}

ValidPhone == <<"+", "9", "9", "8", "9", "0", "1", "2", "3", "4", "5", "6", "7">>
InvalidPhone == <<"9", "9", "8", "9", "0", "1", "2", "3", "4", "5", "6", "7">>

\* the k-th request value of a column: numbers and times are k, texts are short strings
ValOf(col, k) ==
    IF col \in NumericCols THEN k
    ELSE IF col = "phone" THEN (IF k = 1 THEN ValidPhone ELSE InvalidPhone)
    ELSE IF k = 1 THEN <<"a", "B">> ELSE <<"b">>

Digits == {"0", "1", "2", "3", "4", "5", "6", "7", "8", "9"}

\* strconv.Atoi accepts an optional sign followed by at least one digit
AtoiOk(s) ==
    LET body == IF Len(s) > 0 /\ s[1] \in {"+", "-"} THEN Tail(s) ELSE s
    IN  Len(body) > 0 /\ \A i \in 1..Len(body) : body[i] \in Digits

ValidatePhoneNumber(p) ==
    /\ Len(p) = 13
    /\ SubSeq(p, 1, 4) = <<"+", "9", "9", "8">>
    /\ AtoiOk(SubSeq(p, 5, Len(p)))

BcryptMaxLen == 72
Passwords == {[text |-> "Secret1", len |-> 7], [text |-> "long", len |-> 73]}
Salts == {"s1"}

\* bcrypt.GenerateFromPassword: a salted hash, an error for more than 72 bytes
BcryptOk(pw) == pw.len <= BcryptMaxLen
Bcrypt(pw, salt) == <<"$2a$", salt, pw.text>>

\* Postgres.Error: a unique violation becomes ErrorConflict only when the error is
\* the PgError type of the pgconn package this file imports
PostgresError(err) ==
    IF err.type = "pgconn.PgError" /\ err.code = "23505" THEN ErrorConflict ELSE err

----------------------------------------------------------------------------
(* Requests *)

\* a Create request: required fields set, optional pointer fields nil or set
CreateReq(e, k, opt, pw) ==
    [vals |-> [c \in (RequiredCols(e) \ {"hashed_password"}) \cup OptionalCols(e) |->
                 IF c \in OptionalCols(e) /\ c \notin opt THEN Null ELSE Some(ValOf(c, k))],
     password |-> pw]

\* (no optional field, one, every one)
OptionalSets(e) == {{}} \cup {{c} : c \in OptionalCols(e)} \cup {OptionalCols(e)}

\* requests of either value with none or all of the optional fields, and of the
\* first value with one optional field
CreateReqs(e) ==
    {CreateReq(e, k, opt, pw) :
        k \in Variants, opt \in {{}, OptionalCols(e)},
        pw \in IF e = "users" THEN Passwords ELSE {[text |-> "", len |-> 0]}}
    \cup {CreateReq(e, 1, opt, [text |-> "Secret1", len |-> 7]) : opt \in OptionalSets(e)}

\* an Update request: the target id and the non-nil pointer fields
\* (no field, one field, every field)
UpdateFieldSets(e) == {{}} \cup {{c} : c \in UpdatableCols(e)} \cup {UpdatableCols(e)}

\* every field set with the second value, and every field with the first
UpdateReqs(e, ids) ==
    {[id |-> i, fields |-> [c \in F |-> ValOf(c, 2)]] : i \in ids, F \in UpdateFieldSets(e)}
    \cup {[id |-> i, fields |-> [c \in UpdatableCols(e) |-> ValOf(c, 1)]] : i \in ids}

----------------------------------------------------------------------------
(* Rows and statements *)

\* (an INSERT that leaves the optional columns out)
NewRowRequiredOnly(e, id, req, hashed, cAt, uAt) ==
    [id |-> id, created_at |-> cAt, updated_at |-> uAt,
     cols |-> [c \in Cols(e) |->
                 IF c = "hashed_password" THEN Some(hashed)
                 ELSE IF c \in RequiredCols(e) THEN req.vals[c]
                 ELSE Null]]

\* the row an INSERT of the request's columns makes: a column the statement does not
\* name is NULL
NewRow(e, id, req, hashed, cAt, uAt) ==
    [id |-> id, created_at |-> cAt, updated_at |-> uAt,
     cols |-> [c \in Cols(e) |->
                 IF c = "hashed_password" THEN Some(hashed)
                 ELSE IF c \in DOMAIN req.vals THEN req.vals[c]
                 ELSE Null]]

\* the clauses map of Update: updated_at and one entry per non-nil pointer field; the
\* attendance repository also enters outtime = NULL when the OutTime pointer is nil
UpdateClauses(e, req, t) ==
    [updated_at |-> t,
     set |-> [c \in DOMAIN req.fields \cup (IF e = "attendances" THEN {"outtime"} ELSE {}) |->
                IF c \in DOMAIN req.fields THEN Some(req.fields[c]) ELSE Null]]

ClausesLen(cl) == 1 + Cardinality(DOMAIN cl.set)

\* the "no fields to update" test of each repository
NoFieldsToUpdate(e, req, cl) ==
    IF e = "attendances"
    THEN ClausesLen(cl) < 2 /\ "outtime" \notin DOMAIN req.fields /\ IsNull(cl.set["outtime"])
    ELSE ClausesLen(cl) <= 1

\* what Update returns before it opens a transaction
UpdateValidate(e, req, cl) ==
    IF req.id = 0 THEN ErrIDRequired(e, "update")
    ELSE IF e = "users" /\ "phone" \in DOMAIN req.fields
            /\ ~ValidatePhoneNumber(req.fields["phone"]) THEN ErrInvalidPhone
    ELSE IF NoFieldsToUpdate(e, req, cl) THEN ErrNoFields
    ELSE NoErr

\* UPDATE ... SET <clauses> on one row
ApplyUpdate(row, cl) ==
    [row EXCEPT !.updated_at = cl.updated_at,
                !.cols = [c \in DOMAIN row.cols |->
                            IF c \in DOMAIN cl.set THEN cl.set[c] ELSE row.cols[c]]]

\* squirrel.Eq{key: value} on one row; NULL equals nothing
EqMatches(row, key, val) ==
    IF key = "id" THEN row.id = val
    ELSE ~IsNull(row.cols[key]) /\ Unwrap(row.cols[key]) = val

WhereEq(rows, params) == {r \in rows : \A k \in DOMAIN params : EqMatches(r, k, params[k])}

\* would the row break a unique index, given the other rows
UniqueConflict(e, row, others) ==
    \E o \in others : \E c \in UniqueCols(e) :
        o.id # row.id /\ ~IsNull(row.cols[c]) /\ o.cols[c] = row.cols[c]

\* tx.Commit makes the transaction's write visible
CommitInsert(t, row) == t \cup {row}
CommitUpdate(t, id, cl) == {IF r.id = id THEN ApplyUpdate(r, cl) ELSE r : r \in t}
\* (a store without transactions, where the statement's write stays)
RollbackKeepsWrite(t, w) == t \cup {w}
\* the deferred tx.Rollback discards it
Rollback(t, w) == t
\* (a delete that only marks the row)
DeleteKeepsRow(t, id) == t
\* DELETE ... WHERE id = ?, which takes effect at once
DeleteWhere(t, id) == {r \in t : r.id # id}

\* (a Get without the argument check)
GetUnchecked(params) == NoErr
\* what Get returns before it builds a query
GetValidate(params) == IF DOMAIN params = {} THEN ErrFilterRequired ELSE NoErr

----------------------------------------------------------------------------
(* List: predicate, order, paging *)

Lower(ch) == IF ch = "A" THEN "a" ELSE IF ch = "B" THEN "b" ELSE ch

\* text ILIKE pattern: % matches any run of characters, _ any one character, every
\* other character itself without regard to case
RECURSIVE ILikeMatch(_, _)
ILikeMatch(text, pat) ==
    IF pat = <<>> THEN text = <<>>
    ELSE IF Head(pat) = "%"
         THEN ILikeMatch(text, Tail(pat)) \/ (text # <<>> /\ ILikeMatch(Tail(text), pat))
    ELSE IF text = <<>> THEN FALSE
    ELSE /\ (Head(pat) = "_" \/ Lower(Head(pat)) = Lower(Head(text)))
         /\ ILikeMatch(Tail(text), Tail(pat))

\* fmt.Sprintf("%%%s%%", search)
SearchPattern(search) == <<"%">> \o search \o <<"%">>

\* squirrel.Or{ILike{col: pattern}, ...} over the entity's search columns
SearchClause(e, row, search) ==
    \E c \in SearchCols(e) :
        ~IsNull(row.cols[c]) /\ ILikeMatch(Unwrap(row.cols[c]), SearchPattern(search))

\* the WHERE of baseBuilder: the filters, and the search clause when search # ""
PageWhere(e, rows, filter, search) ==
    {r \in WhereEq(rows, filter) : search = <<>> \/ SearchClause(e, r, search)}

\* (a count builder that was not given the search clause)
CountWhereFiltersOnly(e, rows, filter, search) == WhereEq(rows, filter)
\* the WHERE of countBuilder
CountWhere(e, rows, filter, search) ==
    {r \in WhereEq(rows, filter) : search = <<>> \/ SearchClause(e, r, search)}

\* (every repository ordering by created_at alone)
OrderColsCreatedAt(e) == <<"created_at">>
\* the ORDER BY of each repository's List, every column descending
OrderCols(e) == IF e = "attendances" THEN <<"date", "intime">> ELSE <<"created_at">>

ColValue(row, c) == IF c = "created_at" THEN row.created_at ELSE Unwrap(row.cols[c])

\* r sorts strictly before s under ORDER BY cols DESC
RECURSIVE SortsBefore(_, _, _)
SortsBefore(r, s, cols) ==
    /\ cols # <<>>
    /\ \/ ColValue(r, Head(cols)) > ColValue(s, Head(cols))
       \/ /\ ColValue(r, Head(cols)) = ColValue(s, Head(cols))
          /\ SortsBefore(r, s, Tail(cols))

\* the orders in which the store may return the rows: rows the ORDER BY does not
\* separate come in any order, and not in the same order from one query to the next
Orderings(e, rows) ==
    LET n == Cardinality(rows)
    IN  {o \in [1..n -> rows] :
           /\ \A i, j \in 1..n : i # j => o[i] # o[j]
           /\ \A i, j \in 1..n : i < j => ~SortsBefore(o[j], o[i], OrderCols(e))}

\* Go int arithmetic of the handlers: 64-bit two's complement, held as eight base-256
\* digits, least significant first
I64(n) == [i \in 0..7 |-> IF i < 4 THEN (n \div (256 ^ i)) % 256 ELSE 0]

RECURSIVE I64MulCarry(_, _, _, _)
\* digits i..7 of a * m + carry * 256^i, for a small m
I64MulCarry(a, m, i, carry) ==
    IF i > 7 THEN <<>>
    ELSE <<(a[i] * m + carry) % 256>> \o I64MulCarry(a, m, i + 1, (a[i] * m + carry) \div 256)

I64MulSmall(a, m) ==
    LET d == I64MulCarry(a, m, 0, 0) IN [i \in 0..7 |-> d[i + 1]]

\* a - 1 for a >= 1
I64Dec(a) ==
    LET low == CHOOSE i \in 0..7 : a[i] # 0 /\ \A j \in 0..(i - 1) : a[j] = 0
    IN  [i \in 0..7 |-> IF i < low THEN 255 ELSE IF i = low THEN a[i] - 1 ELSE a[i]]

I64Negative(a) == a[7] >= 128
I64Small(a) == \A i \in 3..7 : a[i] = 0
I64Value(a) == a[0] + 256 * a[1] + 65536 * a[2]

\* strconv.Atoi of a query parameter: absent, not a number, or a number
DefaultLimit == 10
DefaultPage == 1

\* helper.GetPaginationParams: a parameter that is absent, unparsable or not positive
\* gives the default
PaginationParam(q, default) ==
    IF q.kind = "int" /\ q.positive THEN q.val ELSE I64(default)

\* the offset the list handlers hand to the repository
HandlerOffset(page, limit) ==
    LET offset == I64MulSmall(I64Dec(page), I64Value(limit))
    IN  IF I64Negative(offset) THEN I64(0) ELSE offset

\* LIMIT limit OFFSET offset over the ordered rows
LimitOffset(order, limit, offset) ==
    IF ~I64Small(offset) \/ I64Value(offset) >= Len(order) THEN <<>>
    ELSE SubSeq(order, I64Value(offset) + 1,
                IF I64Value(offset) + I64Value(limit) < Len(order)
                THEN I64Value(offset) + I64Value(limit) ELSE Len(order))

\* rows.Scan of the selected columns; the users list does not select the hashes
ScanListed(e, row) ==
    IF e = "users"
    THEN [row EXCEPT !.cols = [c \in DOMAIN row.cols |->
                                 IF c = "hashed_password" THEN Some(<<>>)
                                 ELSE IF c = "hashed_refresh_token" THEN Null
                                 ELSE row.cols[c]]]
    ELSE row

----------------------------------------------------------------------------
(* The HTTP layer: strings are sequences of one-character strings *)

Bearer == <<"B", "e", "a", "r", "e", "r", " ">>
BearerLen == 7

\* strings.Contains(s, sub) for a non-empty sub
Contains(s, sub) ==
    \E i \in 1..(Len(s) - Len(sub) + 1) : SubSeq(s, i, i + Len(sub) - 1) = sub

\* the token AuthContext hands to the parser; <<>> when the request is token-less
ExtractToken(query, header) ==
    IF Len(query) # 0 THEN query
    ELSE IF Len(header) > BearerLen
         THEN IF Contains(header, Bearer)
              THEN SubSeq(header, BearerLen + 1, Len(header))
              ELSE header
         ELSE <<>>

(* Tokens.  A segment stands for its base64 text: two characters that name what  *)
(* the segment decodes to.                                                       *)

\* strings.Split(s, ".")
RECURSIVE Split(_)
Split(s) ==
    IF \A i \in 1..Len(s) : s[i] # "." THEN <<s>>
    ELSE LET i == CHOOSE k \in 1..Len(s) : s[k] = "." /\ \A j \in 1..(k - 1) : s[j] # "."
         IN  <<SubSeq(s, 1, i - 1)>> \o Split(SubSeq(s, i + 1, Len(s)))

Str(v) == [type |-> "string", v |-> v]
Num(n) == [type |-> "number", v |-> n]

HeaderSegs == {<<"H", "S">>, <<"R", "S">>, <<"?", "?">>}
ClaimSegs == {<<"c", d>> : d \in {"0", "1", "2", "3", "4", "5", "6"}} \cup {<<"?", "?">>}
SigSegs == {<<"k", "1">>, <<"k", "2">>}

\* the JOSE header a segment decodes to, Null when it does not decode
DecodeHeader(seg) ==
    IF seg = <<"H", "S">> THEN Some([alg |-> "HS256"])
    ELSE IF seg = <<"R", "S">> THEN Some([alg |-> "RS256"])
    ELSE Null

\* the claim set a segment decodes to, Null when it does not decode
DecodeClaims(seg) ==
    IF seg = <<"c", "0">> THEN Some(<<>>)
    ELSE IF seg = <<"c", "1">> THEN Some([sub |-> Str("u1"), role |-> Str("admin")])
    ELSE IF seg = <<"c", "2">>
         THEN Some([sub |-> Str("u1"), type |-> Str("user"), exp |-> Num(9), iat |-> Num(1)])
    ELSE IF seg = <<"c", "3">> THEN Some([sub |-> Str("u1"), exp |-> Num(1)])
    ELSE IF seg = <<"c", "4">> THEN Some([sub |-> Str("u1"), nbf |-> Num(2)])
    ELSE IF seg = <<"c", "5">> THEN Some([exp |-> Num(9), iat |-> Num(1)])
    ELSE IF seg = <<"c", "6">> THEN Some([sub |-> Str("u1"), iat |-> Num(2)])
    ELSE Null

\* the signature segment that is the HMAC of the first two segments under the
\* server's signing key; <<"k", "2">> is the one made with another key
SignedWith(secret) == IF secret = "SigningKey" THEN <<"k", "1">> ELSE <<"k", "2">>

IsHMAC(alg) == alg = "HS256"

NumberClaim(claims, name) ==
    IF name \in DOMAIN claims /\ claims[name].type = "number" THEN claims[name].v ELSE 0

\* jwt.MapClaims.Valid at time t: the flags of the time claims that fail; a claim
\* that is absent, zero or not a number passes
ClaimsValid(claims, t) ==
    LET exp == NumberClaim(claims, "exp")
        iat == NumberClaim(claims, "iat")
        nbf == NumberClaim(claims, "nbf")
    IN  (IF exp # 0 /\ t > exp THEN {"Expired"} ELSE {})
          \cup (IF iat # 0 /\ t < iat THEN {"IssuedAt"} ELSE {})
          \cup (IF nbf # 0 /\ t < nbf THEN {"NotValidYet"} ELSE {})

\* jwt.Parse with ParseJwtToken's key function: the claims and the validation
\* error's flags, none when the token is valid
JwtParse(tokenStr, jwtsecret, t) ==
    LET parts == Split(tokenStr) IN
    IF Len(parts) # 3 THEN [claims |-> <<>>, errors |-> {"Malformed"}]
    ELSE LET header == DecodeHeader(parts[1])
             claims == DecodeClaims(parts[2])
         IN  IF IsNull(header) \/ IsNull(claims)
             THEN [claims |-> <<>>, errors |-> {"Malformed"}]
             ELSE IF ~IsHMAC(Unwrap(header).alg)
             THEN [claims |-> Unwrap(claims), errors |-> {"Unverifiable"}]
             ELSE [claims |-> Unwrap(claims),
                   errors |-> ClaimsValid(Unwrap(claims), t)
                                \cup (IF parts[3] = SignedWith(jwtsecret)
                                      THEN {} ELSE {"SignatureInvalid"})]

ErrValidationErrorMalformed == Err("error", "", <<"Token is malformed">>)
ErrTokenExpiredOrNotValidYet == Err("error", "", <<"Token is either expired or not active yet">>)
ErrCouldNotHandle == Err("error", "", <<"Couldn't handle this token: ", "validation error">>)

ParseJwtTokenMalformedUnhandled(tokenStr, jwtsecret, t) ==
    LET p == JwtParse(tokenStr, jwtsecret, t) IN
    IF p.errors = {} THEN [claims |-> p.claims, err |-> NoErr]
    ELSE IF p.errors \cap {"Expired", "NotValidYet"} # {}
         THEN [claims |-> <<>>, err |-> ErrTokenExpiredOrNotValidYet]
         ELSE [claims |-> <<>>, err |-> ErrCouldNotHandle]

ParseJwtTokenExpiredUnhandled(tokenStr, jwtsecret, t) ==
    LET p == JwtParse(tokenStr, jwtsecret, t) IN
    IF p.errors = {} THEN [claims |-> p.claims, err |-> NoErr]
    ELSE IF "Malformed" \in p.errors
         THEN [claims |-> <<>>, err |-> ErrValidationErrorMalformed]
         ELSE [claims |-> <<>>, err |-> ErrCouldNotHandle]

\* the claims of a valid token, or no claims and the error
ParseJwtToken(tokenStr, jwtsecret, t) ==
    LET p == JwtParse(tokenStr, jwtsecret, t) IN
    IF p.errors = {} THEN [claims |-> p.claims, err |-> NoErr]
    ELSE IF "Malformed" \in p.errors
         THEN [claims |-> <<>>, err |-> ErrValidationErrorMalformed]
    ELSE IF p.errors \cap {"Expired", "NotValidYet"} # {}
         THEN [claims |-> <<>>, err |-> ErrTokenExpiredOrNotValidYet]
    ELSE [claims |-> <<>>, err |-> ErrCouldNotHandle]

AuthDataAllClaims(claims) == [k \in DOMAIN claims |-> claims[k].v]

\* the claims whose values are strings
AuthData(claims) ==
    [k \in {n \in DOMAIN claims : claims[n].type = "string"} |-> claims[k].v]

JwtSecret == "SigningKey"

AuthContextRejecting(req, jwtSecret, t) ==
    LET token == ExtractToken(req.query, req.header)
        p == ParseJwtToken(token, jwtSecret, t)
        none == [token |-> token, parsed |-> FALSE, err |-> NoErr, claims |-> <<>>,
                 keys |-> Null, nexts |-> 1, aborted |-> FALSE]
    IN  IF token = <<>> THEN none
        ELSE IF p.err # NoErr
             THEN [none EXCEPT !.parsed = TRUE, !.err = p.err, !.nexts = 0, !.aborted = TRUE]
             ELSE [none EXCEPT !.parsed = TRUE, !.claims = p.claims,
                               !.keys = IF p.claims # <<>> THEN Some(AuthData(p.claims)) ELSE Null]

\* one run of the AuthContext middleware on a request at time t: the token it
\* extracted, whether it parsed it, what the parser returned, the identity data it
\* set in the context, its calls of c.Next and whether it aborted the request
AuthContextResult(req, jwtSecret, t) ==
    LET token == ExtractToken(req.query, req.header)
        p == ParseJwtToken(token, jwtSecret, t)
        none == [token |-> token, parsed |-> FALSE, err |-> NoErr, claims |-> <<>>,
                 keys |-> Null, nexts |-> 1, aborted |-> FALSE]
    IN  IF token = <<>> THEN none
        ELSE IF p.err # NoErr
             THEN [none EXCEPT !.parsed = TRUE, !.err = p.err]
             ELSE [none EXCEPT !.parsed = TRUE, !.claims = p.claims,
                               !.keys = IF p.claims # <<>> THEN Some(AuthData(p.claims)) ELSE Null]

(* Requests *)

Join3(h, c, s) == h \o <<".">> \o c \o <<".">> \o s

Tokens ==
    {Join3(h, c, s) : h \in HeaderSegs, c \in ClaimSegs, s \in SigSegs}
      \cup {<<"H", "S", ".", "c", "2">>}

\* the tokens that also come in the Authorization header
HeaderTokens ==
    {Join3(<<"H", "S">>, c, <<"k", "1">>) : c \in ClaimSegs}
      \cup {Join3(<<"H", "S">>, <<"c", "2">>, <<"k", "2">>)}

Headers ==
    {<<>>, <<"a", "b", "c">>, Bearer}
      \cup {Bearer \o tok : tok \in HeaderTokens}
      \cup HeaderTokens
      \cup {<<"x">> \o Bearer \o Join3(<<"H", "S">>, <<"c", "1">>, <<"k", "1">>)}

\* the token parameter and the Authorization header of a request
AuthInputs ==
    {[query |-> q, header |-> <<>>] : q \in Tokens}
      \cup {[query |-> q, header |-> Bearer \o Join3(<<"H", "S">>, <<"c", "1">>, <<"k", "1">>)] :
               q \in {Join3(<<"H", "S">>, <<"c", "2">>, <<"k", "1">>),
                      Join3(<<"H", "S">>, <<"c", "2">>, <<"k", "2">>)}}
      \cup {[query |-> <<>>, header |-> h] : h \in Headers}

(* Routes *)

Ops == {"create", "get", "list", "update", "delete"}

\* the path the entity's policies name
PolicyPath(e) ==
    CASE e = "users" -> "/v1/users/"
      [] e = "tasks" -> "/v1/tasks/"
      [] e = "attendances" -> "/v1/attendance/"
      [] e = "salaries" -> "/v1/salaries/"
      [] e = "bonuses" -> "/v1/bonuses/"
      [] e = "files" -> "/v1/files/"

\* the group the entity's routes are registered under
GroupPath(e) ==
    CASE e = "users" -> "/v1/users"
      [] e = "tasks" -> "/v1/tasks"
      [] e = "attendances" -> "/v1/attendance"
      [] e = "salaries" -> "/v1/salaries"
      [] e = "bonuses" -> "/v1/bonuses"
      [] e = "files" -> "/v1/files"

AdminPolicies(e) == {<<"admin", PolicyPath(e), m>> : m \in {"GET", "POST", "PUT", "DELETE"}}

\* the policies the entity's registrar adds
Policies(e) ==
    CASE e = "tasks" ->
           AdminPolicies(e) \cup {<<"user", PolicyPath(e), "GET">>, <<"user", PolicyPath(e), "PUT">>}
      [] e = "attendances" -> AdminPolicies(e) \cup {<<"user", PolicyPath(e), "GET">>}
      [] OTHER -> AdminPolicies(e)

RouteMethod(op) ==
    CASE op = "create" -> "POST"
      [] op = "get" -> "GET"
      [] op = "list" -> "GET"
      [] op = "update" -> "PUT"
      [] op = "delete" -> "DELETE"

RoutePattern(e, op) ==
    CASE op \in {"get", "update", "delete"} -> "/:id"
      [] op = "list" /\ e = "attendances" -> "/"
      [] OTHER -> ""

RouteChainEnforced(e, op) == <<"AuthContext", "Authorizer", op>>

\* the handlers a request to the route runs through: those of the /v1 group when
\* the route was registered, then the route's own
RouteChain(e, op) == <<"AuthContext", op>>

\* the five routes the entity's registrar registers
CrudRoutes(e) ==
    {[method |-> RouteMethod(op), path |-> GroupPath(e), pattern |-> RoutePattern(e, op),
      chain |-> RouteChain(e, op)] : op \in Ops}

NoRouter ==
    [pc |-> "off", enforcer |-> "nil", policies |-> {}, logged |-> {}, routes |-> {}]

NoAuth ==
    [token |-> <<>>, parsed |-> FALSE, err |-> NoErr, claims |-> <<>>, keys |-> Null,
     nexts |-> 0, aborted |-> FALSE]

\* the two keys of the request context the middleware and the handlers name: the one
\* of the request-correlation id, under which AuthContext stores the identity data,
\* and the one of the identity data, which GetAuthData reads
RequestIDHeader == "RequestIDHeader"
RequestAuthCtx == "RequestAuthCtx"

\* the Keys of the gin context after AuthContext: c.Set(RequestIDHeader, authData)
GinKeys(auth) ==
    IF IsNull(auth.keys) THEN <<>> ELSE [k \in {RequestIDHeader} |-> Unwrap(auth.keys)]

\* gin's Context.Value with a key: the value c.Get finds, or nil
ContextValue(keys, key) == IF key \in DOMAIN keys THEN Some(keys[key]) ELSE Null

\* BaseHandler.GetAuthData: ctx.Value(middleware.RequestAuthCtx).(map[string]string)
GetAuthData(keys) ==
    LET data == ContextValue(keys, RequestAuthCtx) IN [data |-> data, ok |-> ~IsNull(data)]

NoAuthData == [data |-> Null, ok |-> FALSE]

NoCtx ==
    [index |-> 0, route |-> Null, req |-> Null, auth |-> NoAuth, handled |-> 0, status |-> 0,
     body |-> Null, logged |-> Null, authData |-> NoAuthData]

\* the handler of the chain that runs next
Running ==
    IF ctx.index = 0 THEN "none"
    ELSE IF ctx.index > Len(Unwrap(ctx.route).chain) THEN "done"
    ELSE Unwrap(ctx.route).chain[ctx.index]

----------------------------------------------------------------------------
(* The handlers' answers *)

StatusOK == 200
StatusCreated == 201
StatusBadRequest == 400
StatusNotFound == 404
StatusInternalServerError == 500

\* the handlers' own not-found error value (attendance), which no repository returns
ErrorNotFound == Err("error", "", <<"record not found">>)

\* strings.Contains(text, pattern) for a part of an error message and a pattern a
\* handler looks for
TextContains(text, pattern) ==
    \/ text = pattern
    \/ /\ pattern = "no attendance record found"
       /\ text = "no attendance record found with ID"

\* strings.Contains(err.Error(), pattern)
MsgContains(err, pattern) ==
    \E i \in 1..Len(err.msg) : TextContains(err.msg[i], pattern)

\* the text the update and delete handlers take for not found
NotFoundPattern(e) ==
    IF e = "attendances" THEN "no attendance record found" ELSE NotFoundMsg(e)

HandlerStatusAlways500(e, op, err) ==
    IF err = NoErr THEN (IF op = "create" THEN StatusCreated ELSE StatusOK)
    ELSE StatusInternalServerError

\* the status a handler answers with once the repository has returned err
HandlerStatus(e, op, err) ==
    IF err = NoErr THEN (IF op = "create" THEN StatusCreated ELSE StatusOK)
    ELSE CASE op = "create" ->
                IF e = "users"
                   /\ MsgContains(err, "duplicate key value violates unique constraint")
                THEN StatusBadRequest ELSE StatusInternalServerError
           [] op = "get" ->
                IF MsgContains(err, "no rows in result set")
                   \/ (e = "attendances" /\ err = ErrorNotFound)
                THEN StatusNotFound ELSE StatusInternalServerError
           [] op = "update" ->
                IF MsgContains(err, NotFoundPattern(e))
                   \/ (e = "attendances" /\ err = ErrorNotFound)
                THEN StatusNotFound
                ELSE IF e # "attendances" /\ MsgContains(err, "no fields to update")
                THEN StatusBadRequest ELSE StatusInternalServerError
           [] op = "delete" ->
                IF MsgContains(err, NotFoundPattern(e))
                   \/ (e = "attendances" /\ err = ErrorNotFound)
                THEN StatusNotFound ELSE StatusInternalServerError
           [] OTHER -> StatusInternalServerError

\* what a request looks like to its handler: the id parameter and the body
IdParams == {"malformed", "nonpositive", "positive"}
CreateBodies(e) ==
    {"unparsable", "missing required", "complete"}
      \cup (IF e = "users" THEN {"invalid email"} ELSE {})
UpdateBodies(e) ==
    {"unparsable", "no fields", "fields"}
      \cup (IF e = "users" THEN {"fields without role", "unhashable password"} ELSE {})

\* the errors the repository interface can hand a handler: those the entity's
\* repository method has a return statement for
RepoReturns(e, op) ==
    CASE op = "create" ->
           {NoErr, Wrap("transaction start failed", DbFailure), PostgresError(DbFailure),
            PostgresError(ScanFailure), Wrap("commit failed", DbFailure)}
             \cup (IF e = "users" THEN {ErrHash, PostgresError(UniqueViolation)} ELSE {})
      [] op = "get" ->
           {NoErr, ErrFilterRequired, PostgresError(DbFailure), PostgresError(ErrNoRows)}
      [] op = "update" ->
           {NoErr, ErrIDRequired(e, "update"), ErrNoFields,
            Wrap("transaction start failed", DbFailure), PostgresError(DbFailure),
            ErrNotFound(e), Wrap("commit failed", DbFailure)}
             \cup (IF e = "users" THEN {ErrInvalidPhone, PostgresError(UniqueViolation)} ELSE {})
      [] op = "delete" ->
           {NoErr, ErrIDRequired(e, "deletion"), PostgresError(DbFailure), ErrNotFound(e)}

\* updateUser dereferences the payload's role, nil when the body has none; the
\* panic is recovered by gin.Recovery, which answers 500
HandlerPanics(e, op, body) ==
    op = "update" /\ e = "users" /\ body \in {"no fields", "fields without role"}

\* the handler up to its repository call: the status it answers with at once, 0
\* when it goes on to call the repository
HandlerRejects(e, op, id, body) ==
    IF op \in {"get", "update", "delete"} /\ id # "positive" THEN StatusBadRequest
    ELSE IF op \in {"create", "update"} /\ body = "unparsable" THEN StatusBadRequest
    ELSE IF op = "create" /\ body \in {"missing required", "invalid email"} THEN StatusBadRequest
    ELSE IF HandlerPanics(e, op, body) THEN StatusInternalServerError
    ELSE IF op = "update" /\ e = "users" /\ body = "unhashable password"
         THEN StatusInternalServerError
    ELSE 0

----------------------------------------------------------------------------
(* The handlers end to end: bodies, envelopes, what reaches the repository *)

\* the Description of each Status value
StatusDescription(code) ==
    CASE code = StatusOK -> "Request successful"
      [] code = StatusCreated -> "Resource created successfully"
      [] code = StatusBadRequest -> "Invalid request data"
      [] code = StatusNotFound -> "Resource not found"
      [] OTHER -> "An unexpected error occurred"

\* (a handleResponse that puts the detail in the envelope's data)
HandleResponseWithDetail(code, customMessage, data) ==
    [status |-> code,
     body |-> Some([description |-> StatusDescription(code),
                    data |-> IF code >= 400 /\ IsNull(data) THEN Some(customMessage) ELSE data,
                    custom_message |-> IF code >= 400 THEN Some(customMessage) ELSE Null]),
     logged |-> IF code >= 400 THEN (IF IsNull(data) THEN Some(customMessage) ELSE data) ELSE Null]

\* handleResponse: from 400 on, the detail (or the message when there is none) goes to
\* the log and the envelope carries the message with data nil; below 400 the envelope
\* carries the data and the Status value's own message, which is nil
HandleResponse(code, customMessage, data) ==
    [status |-> code,
     body |-> Some([description |-> StatusDescription(code),
                    data |-> IF code >= 400 THEN Null ELSE data,
                    custom_message |-> IF code >= 400 THEN Some(customMessage) ELSE Null]),
     logged |-> IF code >= 400 THEN (IF IsNull(data) THEN Some(customMessage) ELSE data) ELSE Null]

\* gin.Recovery after a handler's panic: status 500 and no envelope
Recovered == [status |-> StatusInternalServerError, body |-> Null, logged |-> Some(<<"panic">>)]

\* err.Error()
ErrorText(err) == err.msg

\* the message a handler passes with an error of the repository
ErrorMessage(e, op, code) ==
    CASE code = StatusNotFound -> <<Singular(e), " with ID not found">>
      [] code = StatusBadRequest /\ op = "update" -> <<"No fields provided to update">>
      [] code = StatusBadRequest /\ op = "create" ->
            <<"User with this email or phone already exists">>
      [] OTHER -> <<"Error while ", op, Singular(e)>>

\* json tags "-" of the entity structs
JsonHidden(e) == IF e = "users" THEN {"hashed_password", "hashed_refresh_token"} ELSE {}

\* json.Marshal of an entity as List, Get and Create return it
MarshalEntity(e, row) ==
    [k \in {"id", "created_at", "updated_at"} \cup (Cols(e) \ JsonHidden(e)) |->
        CASE k = "id" -> Some(row.id)
          [] k = "created_at" -> Some(row.created_at)
          [] k = "updated_at" -> Some(row.updated_at)
          [] OTHER -> row.cols[k]]

\* (a UserResponse that copies the password hash as well)
UserResponseWithHash(row) ==
    [k \in {"id", "first_name", "last_name", "role", "email", "phone", "created_at",
            "updated_at", "hashed_password"}
              \cup {c \in {"photo_url", "bio"} : ~IsNull(row.cols[c])} |->
        CASE k = "id" -> Some(row.id)
          [] k = "created_at" -> Some(row.created_at)
          [] k = "updated_at" -> Some(row.updated_at)
          [] OTHER -> row.cols[k]]

\* the UserResponse the user handlers build; photo_url and bio are omitempty
UserResponse(row) ==
    [k \in {"id", "first_name", "last_name", "role", "email", "phone", "created_at",
            "updated_at"} \cup {c \in {"photo_url", "bio"} : ~IsNull(row.cols[c])} |->
        CASE k = "id" -> Some(row.id)
          [] k = "created_at" -> Some(row.created_at)
          [] k = "updated_at" -> Some(row.updated_at)
          [] OTHER -> row.cols[k]]

\* the data of a success envelope
ResponseData(e, op, data) ==
    CASE op \in {"create", "get"} ->
            Some(IF e = "users" THEN UserResponse(data) ELSE MarshalEntity(e, data))
      [] op = "list" ->
            Some([items |-> [i \in 1..Len(data.items) |-> MarshalEntity(e, data.items[i])],
                  total |-> data.total])
      [] OTHER -> Null

\* what a handler answers once its repository call has returned
ResponseFor(e, op, err, data) ==
    IF err = NoErr
    THEN HandleResponse(HandlerStatus(e, op, err), <<>>, ResponseData(e, op, data))
    ELSE HandleResponse(HandlerStatus(e, op, err),
                        ErrorMessage(e, op, HandlerStatus(e, op, err)),
                        IF HandlerStatus(e, op, err) = StatusNotFound THEN Null
                        ELSE Some(ErrorText(err)))

\* the zero value a field of a bound struct keeps when the body lacks it
ZeroValue(col) == IF col \in NumericCols THEN 0 ELSE <<>>
NoPassword == [text |-> "", len |-> 0]

\* the body of a request: one ShouldBindJSON rejects, or the struct it fills
Unparsable == [kind |-> "unparsable"]
CreateBody(req, emailOk) == [kind |-> "json", req |-> req, emailOk |-> emailOk]
UpdatePayload(fields, password) == [kind |-> "json", fields |-> fields, password |-> password]

\* a create body without field f
Lacking(req, f) ==
    IF f = "password" THEN [req EXCEPT !.password = NoPassword]
    ELSE [req EXCEPT !.vals[f] = Some(ZeroValue(f))]

\* the fields a create handler tests against their zero values
CreateChecked(e) ==
    CASE e = "users" -> {"email", "password", "first_name", "last_name", "role", "phone"}
      [] e = "tasks" -> {"admin_id", "title", "status", "priority"}
      [] e = "attendances" -> {"user_id", "date", "intime", "status"}
      [] e = "salaries" -> {"user_id", "admin_id", "amount", "pay_date", "currency", "status"}
      [] e = "bonuses" -> {"user_id", "amount", "currency"}
      [] e = "files" -> {"name"}

IsZeroField(req, f) ==
    IF f = "password" THEN req.password.len = 0 ELSE req.vals[f] = Some(ZeroValue(f))

\* the message of that answer: its opening and the fields it names
MissingMessage(e) ==
    CASE e = "users" -> <<"Missing required fields: ", "email", "password", "first_name",
                          "last_name", "role", "phone">>
      [] e = "tasks" -> <<"Missing required fields: ", "admin_id", "title", "status", "priority">>
      [] e = "attendances" -> <<"Missing required fields: ", "user_id", "date", "intime", "status">>
      [] e = "salaries" -> <<"Missing or invalid required fields: ", "user_id", "admin_id",
                             "amount", "pay_date", "currency", "status">>
      [] e = "bonuses" -> <<"Missing or invalid required fields: ", "user_id", "amount",
                            "currency">>
      [] e = "files" -> <<"Missing required field: ", "name">>

BindError == HandleResponse(StatusBadRequest, <<"Invalid request body">>, Some(<<"bind error">>))

\* (a create handler that binds the body and calls the repository)
CreateRejectsUnparsableOnly(e, body) ==
    IF body.kind = "unparsable" THEN Some(BindError) ELSE Null

\* a create handler up to its repository call: the answer it gives at once, if any
CreateRejects(e, body) ==
    IF body.kind = "unparsable" THEN Some(BindError)
    ELSE IF \E f \in CreateChecked(e) : IsZeroField(body.req, f)
    THEN Some(HandleResponse(StatusBadRequest, MissingMessage(e), Null))
    ELSE IF e = "users" /\ ~body.emailOk
    THEN Some(HandleResponse(StatusBadRequest, <<"Invalid email format">>, Null))
    ELSE Null

\* the id path parameter: text ParseInt rejects, or a number
BadId == [ok |-> FALSE, n |-> 0]
IdOf(n) == [ok |-> TRUE, n |-> n]

InvalidId(e, id) ==
    IF ~id.ok \/ id.n <= 0
    THEN Some(HandleResponse(StatusBadRequest, <<"Invalid ", Singular(e), " ID format">>, Null))
    ELSE Null

\* entity.GetUserRole, whose body is not part of these sources: the roles it may return
UserRoles == {ValOf("role", k) : k \in Variants}
GetUserRole(s) == UserRoles

HashesPassword(payload) ==
    ~IsNull(payload.password) /\ Unwrap(payload.password).len > 0

HashFailure ==
    HandleResponse(StatusInternalServerError, <<"Could not process password update">>,
                   Some(ErrHash.msg))

\* an update handler up to its repository call; updateUser dereferences the payload's
\* role, which is nil when the body has none
UpdateRejects(e, id, payload) ==
    IF InvalidId(e, id) # Null THEN InvalidId(e, id)
    ELSE IF payload.kind = "unparsable" THEN Some(BindError)
    ELSE IF e = "users" /\ "role" \notin DOMAIN payload.fields THEN Some(Recovered)
    ELSE IF e = "users" /\ HashesPassword(payload) /\ ~BcryptOk(Unwrap(payload.password))
    THEN Some(HashFailure)
    ELSE Null

\* the requests updateUser may hand to the repository: the payload's pointers, the
\* address of the role GetUserRole returned, the hash of a non-empty password
UpdateUserRequests(id, payload) ==
    LET hashes == IF HashesPassword(payload)
                  THEN {Some(Bcrypt(Unwrap(payload.password), salt)) : salt \in Salts}
                  ELSE {Null}
    IN  {[id |-> id.n,
          fields |-> [c \in DOMAIN payload.fields \cup {"role"}
                              \cup (IF IsNull(h) THEN {} ELSE {"hashed_password"}) |->
                        IF c = "role" THEN role
                        ELSE IF c = "hashed_password" THEN Unwrap(h)
                        ELSE payload.fields[c]]] :
            role \in GetUserRole(payload.fields["role"]), h \in hashes}

\* the requests an update handler may hand to the repository
UpdateRequests(e, id, payload) ==
    IF e = "users" THEN UpdateUserRequests(id, payload)
    ELSE {[id |-> id.n, fields |-> payload.fields]}

----------------------------------------------------------------------------
(* Calls *)

Clients == DOMAIN calls

Idle == [pc |-> "idle", op |-> "none", req |-> Null, clauses |-> Null, row |-> Null, stmts |-> 0]
NoResult == [op |-> "none", req |-> Null, err |-> NoErr, data |-> Null, stmts |-> 0]
NoWalk == [params |-> Null, pages |-> <<>>, total |-> 0, open |-> FALSE]

Return(c, op, req, err, data, stmts) ==
    /\ calls' = [calls EXCEPT ![c] = Idle]
    /\ result' = [result EXCEPT ![c] =
                    [op |-> op, req |-> req, err |-> err, data |-> data, stmts |-> stmts]]

\* rows another open transaction is about to write
PendingRows(c) ==
    {calls[d].row : d \in {x \in Clients \ {c} : calls[x].pc = "commit"}}

\* the row is locked by another client's open UPDATE
RowLocked(c, id) ==
    \E d \in Clients \ {c} :
        calls[d].pc = "commit" /\ calls[d].op = "update" /\ calls[d].req.id = id

InitCommon ==
    /\ ent \in Entities
    /\ now = 1
    /\ ops = 0
    /\ deleted = {}
    /\ created = <<>>
    /\ touched = {}
    /\ walk = NoWalk
    /\ router = NoRouter
    /\ ctx = NoCtx

\* the tables the store may hold when the process starts: rows earlier Creates left,
\* with ids 1..n in the order the sequence gave them.  A shape is the row's request
\* values (k, with k2 for intime), its optional columns and its creation time.
InitTables(e, shapes) ==
    LET pw == [text |-> "Secret1", len |-> 7]
        Req(sh) ==
            [CreateReq(e, sh.k, sh.opt, pw) EXCEPT
               !.vals = [c \in DOMAIN @ |-> IF c = "intime" THEN Some(ValOf(c, sh.k2)) ELSE @[c]]]
        Row(i, sh) == NewRow(e, i, Req(sh), Bcrypt(pw, "s1"), sh.t, sh.t)
        tables ==
            UNION {{ {Row(i, f[i]) : i \in 1..n} :
                       f \in {g \in [1..n -> UNION {shapes[i] : i \in 1..n}] :
                                 \A i \in 1..n : g[i] \in shapes[i]}} : n \in 0..MaxRows}
    IN  {t \in tables : \A r \in t : ~UniqueConflict(e, r, t)}

\* the i-th row was created at time 1, odd rows from the first request values and
\* even rows from the second
CrudShapes ==
    [i \in 1..MaxRows |->
       {[k |-> IF i % 2 = 1 THEN 1 ELSE 2, k2 |-> IF i % 2 = 1 THEN 1 ELSE 2, opt |-> opt, t |-> 1] :
           opt \in {{}, OptionalCols(ent)}}]

\* rows created at any time; an attendance row's intime is free of its date
ListShapes ==
    [i \in 1..MaxRows |->
       {[k |-> k, k2 |-> k2, opt |-> opt, t |-> t] :
           k \in Variants, k2 \in Variants, opt \in {{}, OptionalCols(ent)}, t \in 1..MaxClock}]

Init ==
    /\ InitCommon
    /\ table \in InitTables(ent, CrudShapes)
    /\ nextId = Cardinality(table) + 1
    /\ calls = [c \in {1} |-> Idle]
    /\ result = [c \in {1} |-> NoResult]

\* Create up to BeginTx: the password hash (users), the column list with two readings
\* of the clock, the transaction
CreateBeginWith(c, req) ==
    /\ calls[c].pc = "idle"
    /\ ops < MaxOps
    /\ Cardinality(table) + Cardinality(PendingRows(c)) < MaxRows
    /\ \E salt \in (IF ent = "users" THEN Salts ELSE {"s1"}),
          cAt \in now..MaxClock, fail \in BOOLEAN : \E uAt \in cAt..MaxClock :
          /\ ops' = ops + 1
          /\ IF ent = "users" /\ ~BcryptOk(req.password)
             THEN /\ Return(c, "create", req, ErrHash, Null, 0)
                  /\ now' = now
             ELSE IF fail
             THEN /\ Return(c, "create", req, Wrap("transaction start failed", DbFailure), Null, 0)
                  /\ now' = uAt
             ELSE /\ calls' = [calls EXCEPT ![c] =
                        [pc |-> "exec", op |-> "create", req |-> req, clauses |-> Null,
                         row |-> NewRow(ent, 0, req, Bcrypt(req.password, salt), cAt, uAt),
                         stmts |-> 0]]
                  /\ result' = [result EXCEPT ![c] = NoResult]
                  /\ now' = uAt
    /\ UNCHANGED <<router, ent, table, nextId, deleted, created, touched, walk>>

CreateBegin(c) == \E req \in CreateReqs(ent) : CreateBeginWith(c, req) /\ UNCHANGED ctx

\* (an id sequence that hands out the same value again)
NextValStuck(n) == n

\* the id sequence behind INSERT ... RETURNING id: every drawn value is used up
NextVal(n) == n + 1

\* Create: tx.QueryRow(INSERT ... RETURNING ...).Scan
CreateExecStep(c) ==
    /\ calls[c].pc = "exec" /\ calls[c].op = "create"
    /\ LET cl == calls[c]
           row == [cl.row EXCEPT !.id = nextId]
       IN  /\ ~UniqueConflict(ent, row, PendingRows(c))
           /\ \E fail \in {"none", "exec", "scan"} :
                IF fail = "exec"
                THEN /\ Return(c, "create", cl.req, PostgresError(DbFailure), Null, 1)
                     /\ nextId' = nextId
                ELSE IF UniqueConflict(ent, row, table)
                THEN /\ Return(c, "create", cl.req, PostgresError(UniqueViolation), Null, 1)
                     /\ nextId' = NextVal(nextId)
                ELSE IF fail = "scan"
                THEN /\ Return(c, "create", cl.req, PostgresError(ScanFailure), Null, 1)
                     /\ nextId' = NextVal(nextId)
                ELSE /\ calls' = [calls EXCEPT ![c] = [cl EXCEPT !.pc = "commit", !.row = row, !.stmts = 1]]
                     /\ result' = result
                     /\ nextId' = NextVal(nextId)
    /\ table' = Rollback(table, calls[c].row)
    /\ UNCHANGED <<router, ent, now, ops, deleted, created, touched, walk>>

CreateExec(c) == CreateExecStep(c) /\ UNCHANGED ctx

\* Create: tx.Commit and the return of the scanned entity
CreateCommitStep(c) ==
    /\ calls[c].pc = "commit" /\ calls[c].op = "create"
    /\ LET cl == calls[c]
       IN  \E fail \in BOOLEAN :
             IF fail
             THEN /\ Return(c, "create", cl.req, Wrap("commit failed", DbFailure), Null, cl.stmts)
                  /\ table' = Rollback(table, cl.row)
                  /\ created' = created
             ELSE /\ Return(c, "create", cl.req, NoErr, cl.row, cl.stmts)
                  /\ table' = CommitInsert(table, cl.row)
                  /\ created' = [i \in DOMAIN created \cup {cl.row.id} |->
                                   IF i = cl.row.id THEN [row |-> cl.row, req |-> cl.req]
                                   ELSE created[i]]
    /\ UNCHANGED <<router, ent, nextId, now, ops, deleted, touched, walk>>

CreateCommit(c) == CreateCommitStep(c) /\ UNCHANGED ctx

\* Update up to BeginTx: the argument checks, the clauses map, the transaction
UpdateBeginWith(c, req) ==
    /\ calls[c].pc = "idle"
    /\ ops < MaxOps
    /\ IF UpdateValidate(ent, req, UpdateClauses(ent, req, now)) # NoErr
         THEN /\ Return(c, "update", req, UpdateValidate(ent, req, UpdateClauses(ent, req, now)),
                        Null, 0)
              /\ now' = now
         ELSE \E t \in now..MaxClock, fail \in BOOLEAN :
                LET cl == UpdateClauses(ent, req, t)
                IN  /\ now' = t
                    /\ IF fail
                       THEN Return(c, "update", req,
                                   Wrap("transaction start failed", DbFailure), Null, 0)
                       ELSE /\ calls' = [calls EXCEPT ![c] =
                                  [pc |-> "exec", op |-> "update", req |-> req, clauses |-> cl,
                                   row |-> Null, stmts |-> 0]]
                            /\ result' = [result EXCEPT ![c] = NoResult]
    /\ ops' = ops + 1
    /\ UNCHANGED <<router, ent, table, nextId, deleted, created, touched, walk>>

UpdateBegin(c) ==
    \E req \in UpdateReqs(ent, 0..nextId) : UpdateBeginWith(c, req) /\ UNCHANGED ctx

\* Update: tx.Exec(UPDATE ... WHERE id = ?) and the RowsAffected test
UpdateExecStep(c) ==
    /\ calls[c].pc = "exec" /\ calls[c].op = "update"
    /\ ~RowLocked(c, calls[c].req.id)
    /\ LET cl == calls[c]
           hit == {r \in table : r.id = cl.req.id}
           new == {ApplyUpdate(r, cl.clauses) : r \in hit}
       IN  /\ \A n \in new : ~UniqueConflict(ent, n, PendingRows(c))
           /\ \E fail \in BOOLEAN :
                IF fail
                THEN Return(c, "update", cl.req, PostgresError(DbFailure), Null, 1)
                ELSE IF \E n \in new : UniqueConflict(ent, n, table)
                THEN Return(c, "update", cl.req, PostgresError(UniqueViolation), Null, 1)
                ELSE IF hit = {}
                THEN Return(c, "update", cl.req, ErrNotFound(ent), Null, 1)
                ELSE /\ calls' = [calls EXCEPT ![c] =
                            [cl EXCEPT !.pc = "commit", !.stmts = 1,
                                       !.row = CHOOSE n \in new : TRUE]]
                     /\ result' = result
    /\ table' = Rollback(table, calls[c].clauses)
    /\ UNCHANGED <<router, ent, nextId, now, ops, deleted, created, touched, walk>>

UpdateExec(c) == UpdateExecStep(c) /\ UNCHANGED ctx

\* Update: tx.Commit
UpdateCommitStep(c) ==
    /\ calls[c].pc = "commit" /\ calls[c].op = "update"
    /\ LET cl == calls[c]
       IN  \E fail \in BOOLEAN :
             IF fail
             THEN /\ Return(c, "update", cl.req, Wrap("commit failed", DbFailure), Null, cl.stmts)
                  /\ table' = Rollback(table, cl.clauses)
                  /\ touched' = touched
             ELSE /\ Return(c, "update", cl.req, NoErr, Null, cl.stmts)
                  /\ table' = CommitUpdate(table, cl.req.id, cl.clauses)
                  /\ touched' = touched \cup {cl.req.id}
    /\ UNCHANGED <<router, ent, nextId, now, ops, deleted, created, walk>>

UpdateCommit(c) == UpdateCommitStep(c) /\ UNCHANGED ctx

\* Delete: one DELETE ... WHERE id = ? outside any transaction
DeleteWith(c, id) ==
    /\ calls[c].pc = "idle"
    /\ ops < MaxOps
    /\ \E fail \in BOOLEAN :
         LET hit == {r \in table : r.id = id}
             req == [id |-> id]
         IN  IF id = 0
             THEN Return(c, "delete", req, ErrIDRequired(ent, "deletion"), Null, 0)
                  /\ UNCHANGED <<table, deleted>>
             ELSE /\ ~RowLocked(c, id)
                  /\ IF fail
                     THEN Return(c, "delete", req, PostgresError(DbFailure), Null, 1)
                          /\ UNCHANGED <<table, deleted>>
                     ELSE IF hit = {}
                     THEN Return(c, "delete", req, ErrNotFound(ent), Null, 1)
                          /\ UNCHANGED <<table, deleted>>
                     ELSE /\ Return(c, "delete", req, NoErr, Null, 1)
                          /\ table' = DeleteWhere(table, id)
                          /\ deleted' = deleted \cup {id}
    /\ ops' = ops + 1
    /\ UNCHANGED <<router, ent, nextId, now, created, touched, walk>>

Delete(c) == \E id \in 0..nextId : DeleteWith(c, id) /\ UNCHANGED ctx

\* the filter maps Get is called with: none, or the id the handlers pass
GetParams == {<<>>} \cup {[k \in {"id"} |-> i] : i \in 0..nextId}

\* Get: the empty-filter check, then one SELECT whose first row is scanned
GetWith(c, params) ==
    /\ calls[c].pc = "idle"
    /\ ops < MaxOps
    /\ \E fail \in BOOLEAN :
         LET hit == WhereEq(table, params)
         IN  IF GetValidate(params) # NoErr
             THEN Return(c, "get", params, GetValidate(params), Null, 0)
             ELSE IF fail
             THEN Return(c, "get", params, PostgresError(DbFailure), Null, 1)
             ELSE IF hit = {}
             THEN Return(c, "get", params, PostgresError(ErrNoRows), Null, 1)
             ELSE \E r \in hit : Return(c, "get", params, NoErr, r, 1)
    /\ ops' = ops + 1
    /\ UNCHANGED <<router, ent, table, nextId, now, deleted, created, touched, walk>>

Get(c) == \E params \in GetParams : GetWith(c, params) /\ UNCHANGED ctx

----------------------------------------------------------------------------
(* The list endpoints *)

\* a page or limit query parameter as strconv.Atoi sees it; an absent parameter
\* reaches Atoi as the text of its default
QNotNumber == [kind |-> "text", positive |-> FALSE, val |-> I64(0)]
QNotPositive == [kind |-> "int", positive |-> FALSE, val |-> I64(0)]
QInt(n) == [kind |-> "int", positive |-> TRUE, val |-> I64(n)]
\* page=4611686018427387905, which is 2^62 + 1
QHuge == [kind |-> "int", positive |-> TRUE, val |-> [i \in 0..7 |-> IF i = 0 THEN 1 ELSE IF i = 7 THEN 64 ELSE 0]]

PageParams == {QNotPositive, QHuge} \cup {QInt(n) : n \in 1..MaxPage}
LimitParams == {QNotNumber} \cup {QInt(n) : n \in 1..MaxLimit}
SearchTexts == {<<>>, <<"A">>, <<"_">>}
\* no filter, or one column held to its first request value
ListFilters(e) == {<<>>} \cup {[k \in {c} |-> ValOf(c, 1)] : c \in FilterCols(e)}

ListReqs(e) ==
    [pageParam : PageParams, limitParam : LimitParams,
     filter : ListFilters(e), search : SearchTexts]

\* the request that asks for page n of the walk in progress
NextPageReq == [walk.params EXCEPT !.pageParam = QInt(Len(walk.pages) + 1)]

\* the walk a finished List leaves: page 1 opens one, the next page of the same
\* request extends it, anything else ends it
WalkAfter(req, items, total) ==
    LET ids == [i \in 1..Len(items) |-> items[i].id]
    IN  IF req.pageParam = QInt(1)
        THEN [params |-> req, pages |-> <<ids>>, total |-> total, open |-> 1 < MaxPage]
        ELSE IF walk.open /\ req = NextPageReq
        THEN [walk EXCEPT !.pages = Append(@, ids), !.total = total,
                          !.open = Len(walk.pages) + 1 < MaxPage]
        ELSE [walk EXCEPT !.open = FALSE]

\* getAll<Entity> up to the page query of the repository's List: the pagination
\* parameters, the offset, SELECT ... ORDER BY ... LIMIT ... OFFSET and the scan
ListPageWith(c, req) ==
    /\ calls[c].pc = "idle"
    /\ \E fail \in {"none", "query", "scan"} :
         LET page == PaginationParam(req.pageParam, DefaultPage)
             limit == PaginationParam(req.limitParam, DefaultLimit)
             offset == HandlerOffset(page, limit)
             call == req @@
                     [page |-> page, limit |-> limit, offset |-> offset]
             hit == PageWhere(ent, table, req.filter, req.search)
         IN  \/ /\ fail = "query"
                /\ Return(c, "list", call, Wrap("query error", DbFailure), Null, 1)
                /\ walk' = [walk EXCEPT !.open = FALSE]
             \/ /\ fail = "scan" /\ hit # {}
                /\ Return(c, "list", call, Wrap("scan error", ScanFailure), Null, 1)
                /\ walk' = [walk EXCEPT !.open = FALSE]
             \/ /\ fail = "none"
                /\ \E order \in Orderings(ent, hit) :
                     LET rows == LimitOffset(order, limit, offset)
                     IN  calls' = [calls EXCEPT ![c] =
                            [Idle EXCEPT !.pc = "count", !.op = "list", !.req = call,
                                         !.row = [i \in 1..Len(rows) |-> ScanListed(ent, rows[i])],
                                         !.stmts = 1]]
                /\ result' = [result EXCEPT ![c] = NoResult]
                /\ UNCHANGED walk
    /\ ops' = ops + 1
    /\ UNCHANGED <<router, ent, table, nextId, now, deleted, created, touched>>

\* a walk in progress asks for its next page; otherwise a first request
ListPage(c) ==
    \E req \in (IF walk.open THEN {NextPageReq} ELSE IF ops = 0 THEN ListReqs(ent) ELSE {}) :
        ListPageWith(c, req) /\ UNCHANGED ctx

\* the rest of List: SELECT COUNT(*) with the count builder, then the response
ListCountStep(c) ==
    /\ calls[c].pc = "count"
    /\ \E fail \in BOOLEAN :
         LET req == calls[c].req
             total == Cardinality(CountWhere(ent, table, req.filter, req.search))
             asked == [pageParam |-> req.pageParam, limitParam |-> req.limitParam,
                       filter |-> req.filter, search |-> req.search]
         IN  IF fail
             THEN /\ Return(c, "list", req, Wrap("count query error", DbFailure), Null, 2)
                  /\ walk' = [walk EXCEPT !.open = FALSE]
             ELSE /\ Return(c, "list", req, NoErr,
                            [items |-> calls[c].row, total |-> total], 2)
                  /\ walk' = WalkAfter(asked, calls[c].row, total)
    /\ UNCHANGED <<router, ent, table, nextId, now, ops, deleted, created, touched>>

ListCount(c) == ListCountStep(c) /\ UNCHANGED ctx

Next ==
    \E c \in Clients :
         \/ CreateBegin(c)
         \/ CreateExec(c)
         \/ CreateCommit(c)
         \/ UpdateBegin(c)
         \/ UpdateExec(c)
         \/ UpdateCommit(c)
         \/ Delete(c)
         \/ Get(c)

Spec == Init /\ [][Next]_vars

\* the list endpoints over a table whose rows were created at any of the clock's times
InitList ==
    /\ InitCommon
    /\ table \in InitTables(ent, ListShapes)
    /\ nextId = Cardinality(table) + 1
    /\ calls = [c \in {1} |-> Idle]
    /\ result = [c \in {1} |-> NoResult]

NextList == \E c \in Clients : ListPage(c) \/ ListCount(c)

SpecList == InitList /\ [][NextList]_vars

----------------------------------------------------------------------------
(* Startup and one request through the /v1 group *)

\* HandlerOption.Enforcer as the registrar receives it: NewRouter leaves the field
\* unset; the registrars are exported and another caller may set it
Enforcers == {"nil", "enforcer"}

InitHttp ==
    /\ ent \in Entities
    /\ table = {}
    /\ nextId = 1
    /\ now = 1
    /\ calls = [c \in {1} |-> Idle]
    /\ result = [c \in {1} |-> NoResult]
    /\ ops = 0
    /\ deleted = {}
    /\ created = <<>>
    /\ touched = {}
    /\ walk = NoWalk
    /\ router \in {[NoRouter EXCEPT !.pc = "start", !.enforcer = e] : e \in Enforcers}
    /\ ctx = NoCtx

\* the entity's registrar: AddPolicy on each policy, a failure is logged, then the
\* five routes.  AddPolicy through a nil enforcer panics.
NewRoutes ==
    /\ router.pc = "start"
    /\ IF router.enforcer = "nil"
       THEN router' = [router EXCEPT !.pc = "panicked"]
       ELSE \E failed \in SUBSET Policies(ent) :
               router' = [router EXCEPT !.pc = "serving",
                                        !.policies = Policies(ent) \ failed,
                                        !.logged = failed,
                                        !.routes = CrudRoutes(ent)]
    /\ UNCHANGED <<ctx, ent, table, nextId, now, calls, result, ops, deleted, created,
                   touched, walk>>

\* a request that matches one of the registered routes enters its chain
Serve ==
    /\ router.pc = "serving"
    /\ ctx.index = 0
    /\ \E route \in router.routes, in \in AuthInputs :
          ctx' = [NoCtx EXCEPT !.index = 1, !.route = Some(route), !.req = in]
    /\ UNCHANGED <<router, ent, table, nextId, now, calls, result, ops, deleted, created,
                   touched, walk>>

\* the middleware of the /v1 group; the parser reads the clock
AuthContext ==
    /\ Running = "AuthContext"
    /\ \E t \in now..MaxClock :
          LET a == AuthContextResult(ctx.req, JwtSecret, t) IN
          /\ a.parsed \/ t = now
          /\ now' = t
          /\ ctx' = [ctx EXCEPT !.auth = a,
                                !.index = IF a.aborted THEN Len(Unwrap(ctx.route).chain) + 1
                                          ELSE @ + 1]
    /\ UNCHANGED <<router, ent, table, nextId, calls, result, ops, deleted, created,
                   touched, walk>>

\* the route's own handler executes; what GetAuthData gives it is kept
RouteHandler ==
    /\ Running \in Ops
    /\ ctx' = [ctx EXCEPT !.handled = @ + 1, !.index = @ + 1,
                          !.authData = GetAuthData(GinKeys(ctx.auth))]
    /\ UNCHANGED <<router, ent, table, nextId, now, calls, result, ops, deleted, created,
                   touched, walk>>

NextHttp == NewRoutes \/ Serve \/ AuthContext \/ RouteHandler

SpecHttp == InitHttp /\ [][NextHttp]_vars

----------------------------------------------------------------------------
(* The handlers against the repository interface *)

InitHandler ==
    /\ InitCommon
    /\ table = {}
    /\ nextId = 1
    /\ calls = [c \in {1} |-> Idle]
    /\ result = [c \in {1} |-> NoResult]

\* what the entity's handler of op does with a request: it answers at once (err is
\* Null), or it calls the repository and answers from the error that returns
HandlerOutcomes(e, op, ids, bodies) ==
    LET reqs == {[op |-> op, id |-> id, body |-> body] : id \in ids, body \in bodies}
        Rejected(r) == HandlerRejects(e, op, r.id, r.body)
    IN  {[req |-> r, status |-> Rejected(r), err |-> Null] : r \in {x \in reqs : Rejected(x) # 0}}
          \cup {[req |-> r, status |-> HandlerStatus(e, op, err), err |-> Some(err)] :
                   r \in {x \in reqs : Rejected(x) = 0}, err \in RepoReturns(e, op)}

\* the response is written; result keeps what the repository returned
Respond(c, o) ==
    /\ ctx.handled = 0
    /\ ctx' = [NoCtx EXCEPT !.req = o.req, !.handled = 1, !.status = o.status]
    /\ result' = IF IsNull(o.err) THEN result
                 ELSE [result EXCEPT ![c] = [NoResult EXCEPT !.op = o.req.op, !.err = Unwrap(o.err)]]
    /\ UNCHANGED <<router, ent, table, nextId, now, calls, ops, deleted, created, touched,
                   walk>>

CreateHandler(c) ==
    \E o \in HandlerOutcomes(ent, "create", {"none"}, CreateBodies(ent)) : Respond(c, o)

GetHandler(c) ==
    \E o \in HandlerOutcomes(ent, "get", IdParams, {"none"}) : Respond(c, o)

UpdateHandler(c) ==
    \E o \in HandlerOutcomes(ent, "update", IdParams, UpdateBodies(ent)) : Respond(c, o)

DeleteHandler(c) ==
    \E o \in HandlerOutcomes(ent, "delete", IdParams, {"none"}) : Respond(c, o)

NextHandler ==
    \E c \in Clients : CreateHandler(c) \/ GetHandler(c) \/ UpdateHandler(c) \/ DeleteHandler(c)

SpecHandler == InitHandler /\ [][NextHandler]_vars

----------------------------------------------------------------------------
(* The handlers over the repositories: one request at a time per client *)

NewPassword == [text |-> "NewSecret1", len |-> 10]

\* bodies of POST: complete ones of either value, one that lacks each required field,
\* one ShouldBindJSON rejects, and for users a bad email and a password bcrypt rejects
ApiCreateBodies(e) ==
    LET pw == IF e = "users" THEN [text |-> "Secret1", len |-> 7] ELSE NoPassword
    IN  {Unparsable}
          \cup {CreateBody(CreateReq(e, k, opt, pw), TRUE) :
                   k \in Variants, opt \in {{}, OptionalCols(e)}}
          \cup {CreateBody(Lacking(CreateReq(e, 1, {}, pw), f), TRUE) :
                   f \in (RequiredCols(e) \ {"hashed_password"})
                            \cup (IF e = "users" THEN {"password"} ELSE {})}
          \cup (IF e = "users"
                THEN {CreateBody(CreateReq(e, 1, {}, pw), FALSE),
                      CreateBody(CreateReq(e, 1, {}, [text |-> "long", len |-> 73]), TRUE)}
                ELSE {})

\* the columns the update bodies of the model name
ApiUpdateCols(e) ==
    CASE e = "users" -> {"email", "bio"}
      [] e = "tasks" -> {"title", "description"}
      [] e = "attendances" -> {"status", "outtime"}
      [] e = "salaries" -> {"amount", "status"}
      [] e = "bonuses" -> {"amount", "reason"}
      [] e = "files" -> {"name", "taskid"}

\* bodies of PUT: no field, one field, and for users a role and passwords
ApiUpdatePayloads(e) ==
    {Unparsable, UpdatePayload(<<>>, Null)}
      \cup {UpdatePayload([c \in {f} |-> ValOf(f, 2)], Null) : f \in ApiUpdateCols(e)}
      \cup (IF e = "users"
            THEN {UpdatePayload(<<>>, Some(NewPassword)),
                  UpdatePayload([c \in {"role"} |-> ValOf("role", 2)], Null),
                  UpdatePayload([c \in {"role"} |-> ValOf("role", 1)], Some(NewPassword)),
                  UpdatePayload([c \in {"role"} |-> ValOf("role", 1)], Some(NoPassword)),
                  UpdatePayload([c \in {"role"} |-> ValOf("role", 1)],
                                Some([text |-> "long", len |-> 73]))}
            ELSE {})

ApiIds == {BadId} \cup {IdOf(n) : n \in 0..nextId}

\* query strings of GET on the collection: the first page of limit one and of the
\* default limit; for the entities whose filters are parsed, a filter the handler
\* rejects
ApiListReqs(e) ==
    {[pageParam |-> QInt(1), limitParam |-> l, filter |-> <<>>, search |-> <<>>,
      filterOk |-> TRUE] : l \in {QInt(1), QNotNumber}}
      \cup (IF e = "users" THEN {}
            ELSE {[pageParam |-> QInt(1), limitParam |-> QNotNumber, filter |-> <<>>,
                   search |-> <<>>, filterOk |-> FALSE]})

\* the request a handler is working on, and its answer once it has one
Pending(op, id, body) ==
    [NoCtx EXCEPT !.req = [op |-> op, id |-> id, body |-> body]]

Answered(req, a) ==
    [NoCtx EXCEPT !.req = req, !.handled = 1, !.status = a.status, !.body = a.body,
                  !.logged = a.logged]

\* the handler answers without calling the repository
AnswerAtOnce(c, op, id, body, a) ==
    /\ calls[c].pc = "idle"
    /\ ops < MaxOps
    /\ ops' = ops + 1
    /\ ctx' = Answered([op |-> op, id |-> id, body |-> body], a)
    /\ UNCHANGED <<router, ent, table, nextId, now, calls, result, deleted, created, touched,
                   walk>>

\* the repository call has taken a step: the handler answers when it has returned
AnswerOnReturn(c, req) ==
    ctx' = IF calls'[c].pc = "idle"
           THEN Answered(req, ResponseFor(ent, req.op, result'[c].err, result'[c].data))
           ELSE [NoCtx EXCEPT !.req = req]

\* create<Entity>
ApiCreate(c) ==
    \E body \in ApiCreateBodies(ent) :
        IF CreateRejects(ent, body) # Null
        THEN AnswerAtOnce(c, "create", BadId, body, Unwrap(CreateRejects(ent, body)))
        ELSE /\ CreateBeginWith(c, body.req)
             /\ AnswerOnReturn(c, [op |-> "create", id |-> BadId, body |-> body])

\* get<Entity>ByID
ApiGet(c) ==
    \E id \in ApiIds :
        IF InvalidId(ent, id) # Null
        THEN AnswerAtOnce(c, "get", id, Unparsable, Unwrap(InvalidId(ent, id)))
        ELSE /\ GetWith(c, [k \in {"id"} |-> id.n])
             /\ AnswerOnReturn(c, [op |-> "get", id |-> id, body |-> Unparsable])

\* update<Entity>
ApiUpdate(c) ==
    \E id \in ApiIds, payload \in ApiUpdatePayloads(ent) :
        IF UpdateRejects(ent, id, payload) # Null
        THEN AnswerAtOnce(c, "update", id, payload, Unwrap(UpdateRejects(ent, id, payload)))
        ELSE \E req \in UpdateRequests(ent, id, payload) :
                /\ UpdateBeginWith(c, req)
                /\ AnswerOnReturn(c, [op |-> "update", id |-> id, body |-> payload])

\* delete<Entity>
ApiDelete(c) ==
    \E id \in ApiIds :
        IF InvalidId(ent, id) # Null
        THEN AnswerAtOnce(c, "delete", id, Unparsable, Unwrap(InvalidId(ent, id)))
        ELSE /\ DeleteWith(c, id.n)
             /\ AnswerOnReturn(c, [op |-> "delete", id |-> id, body |-> Unparsable])

\* getAll<Entity>: a filter that does not parse is answered at once
ApiList(c) ==
    /\ ops < MaxOps
    /\ \E q \in ApiListReqs(ent) :
          IF ~q.filterOk
          THEN AnswerAtOnce(c, "list", BadId, q,
                            HandleResponse(StatusBadRequest, <<"Invalid filter format">>, Null))
          ELSE /\ ListPageWith(c, [pageParam |-> q.pageParam, limitParam |-> q.limitParam,
                                   filter |-> q.filter, search |-> q.search])
               /\ AnswerOnReturn(c, [op |-> "list", id |-> BadId, body |-> q])

\* the repository call of the request in progress goes on
ApiCreateExec(c) == CreateExecStep(c) /\ AnswerOnReturn(c, ctx.req)
ApiCreateCommit(c) == CreateCommitStep(c) /\ AnswerOnReturn(c, ctx.req)
ApiUpdateExec(c) == UpdateExecStep(c) /\ AnswerOnReturn(c, ctx.req)
ApiUpdateCommit(c) == UpdateCommitStep(c) /\ AnswerOnReturn(c, ctx.req)
ApiListCount(c) == ListCountStep(c) /\ AnswerOnReturn(c, ctx.req)

\* the first row has every optional column, the second none
ApiShapes ==
    [i \in 1..MaxRows |->
       {[k |-> IF i % 2 = 1 THEN 1 ELSE 2, k2 |-> IF i % 2 = 1 THEN 1 ELSE 2,
         opt |-> IF i % 2 = 1 THEN OptionalCols(ent) ELSE {}, t |-> 1]}]

InitApi ==
    /\ InitCommon
    /\ table \in InitTables(ent, ApiShapes)
    /\ nextId = Cardinality(table) + 1
    /\ calls = [c \in {1} |-> Idle]
    /\ result = [c \in {1} |-> NoResult]

NextApi ==
    \E c \in Clients :
         \/ ApiCreate(c)
         \/ ApiCreateExec(c)
         \/ ApiCreateCommit(c)
         \/ ApiGet(c)
         \/ ApiList(c)
         \/ ApiListCount(c)
         \/ ApiUpdate(c)
         \/ ApiUpdateExec(c)
         \/ ApiUpdateCommit(c)
         \/ ApiDelete(c)

SpecApi == InitApi /\ [][NextApi]_vars

----------------------------------------------------------------------------
(* The repositories under two request goroutines *)

\* two columns of each entity that no uniqueness constraint covers
ConcUpdateCols(e) ==
    CASE e = "users" -> <<"first_name", "bio">>
      [] e = "tasks" -> <<"title", "description">>
      [] e = "attendances" -> <<"status", "outtime">>
      [] e = "salaries" -> <<"amount", "status">>
      [] e = "bonuses" -> <<"amount", "reason">>
      [] e = "files" -> <<"name", "taskid">>

\* Update requests that supply one of the two columns
ConcUpdateReq(e, id, i) ==
    [id |-> id, fields |-> [c \in {ConcUpdateCols(e)[i]} |-> ValOf(c, 2)]]

ConcUpdateReqs(e, ids) == {ConcUpdateReq(e, id, i) : id \in ids, i \in 1..2}

\* Create requests of either value without optional fields
ConcCreateReqs(e) ==
    {CreateReq(e, k, {}, [text |-> "Secret1", len |-> 7]) : k \in Variants}

\* the first page of the default limit, unfiltered
ConcListReq ==
    [pageParam |-> QInt(1), limitParam |-> QNotNumber, filter |-> <<>>, search |-> <<>>]

ConcCreateBegin(c) == \E req \in ConcCreateReqs(ent) : CreateBeginWith(c, req) /\ UNCHANGED ctx

ConcUpdateBegin(c) ==
    \E req \in ConcUpdateReqs(ent, 1..nextId) : UpdateBeginWith(c, req) /\ UNCHANGED ctx

ConcDelete(c) == \E id \in 1..nextId : DeleteWith(c, id) /\ UNCHANGED ctx

ConcListPage(c) == ops < MaxOps /\ ListPageWith(c, ConcListReq) /\ UNCHANGED ctx

InitConc ==
    /\ InitCommon
    /\ table \in InitTables(ent, ApiShapes)
    /\ nextId = Cardinality(table) + 1
    /\ calls = [c \in {1, 2} |-> Idle]
    /\ result = [c \in {1, 2} |-> NoResult]

NextConc ==
    \E c \in Clients :
         \/ ConcCreateBegin(c)
         \/ CreateExec(c)
         \/ CreateCommit(c)
         \/ ConcUpdateBegin(c)
         \/ UpdateExec(c)
         \/ UpdateCommit(c)
         \/ ConcDelete(c)
         \/ ConcListPage(c)
         \/ ListCount(c)

SpecConc == InitConc /\ [][NextConc]_vars

----------------------------------------------------------------------------
(* The list endpoints from the text of the query string *)

DigitChars == <<"0", "1", "2", "3", "4", "5", "6", "7", "8", "9">>
DigitValue(ch) == (CHOOSE i \in 1..10 : DigitChars[i] = ch) - 1

\* strconv.Itoa of the two defaults
Itoa(n) ==
    IF n < 10 THEN <<DigitChars[n + 1]>>
    ELSE <<DigitChars[(n \div 10) + 1], DigitChars[(n % 10) + 1]>>

\* c.DefaultQuery: the text of the parameter, or the default's text when the key is absent
DefaultQuery(text, default) == IF IsNull(text) THEN default ELSE Unwrap(text)

RECURSIVE I64CarryOut(_, _, _, _)
\* what a * m + carry leaves beyond the eighth digit
I64CarryOut(a, m, i, carry) ==
    IF i > 7 THEN carry ELSE I64CarryOut(a, m, i + 1, (a[i] * m + carry) \div 256)

\* a * m + d in 64 bits
I64MulAdd(a, m, d) ==
    LET ds == I64MulCarry(a, m, 0, d) IN [i \in 0..7 |-> ds[i + 1]]

\* -a in two's complement
I64Neg(a) ==
    IF \A i \in 0..7 : a[i] = 0 THEN a
    ELSE LET low == CHOOSE i \in 0..7 : a[i] # 0 /\ \A j \in 0..(i - 1) : a[j] = 0
         IN  [i \in 0..7 |-> IF i < low THEN 0 ELSE IF i = low THEN 256 - a[i] ELSE 255 - a[i]]

RECURSIVE AtoiDigits(_, _, _, _)
\* the digit loop n = n*10 + d, with the range error of a value beyond 64 bits
AtoiDigits(body, i, acc, range) ==
    IF i > Len(body) THEN [val |-> acc, range |-> range]
    ELSE AtoiDigits(body, i + 1, I64MulAdd(acc, 10, DigitValue(body[i])),
                    range \/ I64CarryOut(acc, 10, 0, DigitValue(body[i])) # 0)

\* strconv.Atoi: a syntax error, a range error, or the int
Atoi(s) ==
    IF ~AtoiOk(s) THEN QNotNumber
    ELSE LET neg == s[1] = "-"
             body == IF s[1] \in {"+", "-"} THEN Tail(s) ELSE s
             d == AtoiDigits(body, 1, I64(0), FALSE)
             beyond == d.range \/ (I64Negative(d.val) /\ (~neg \/ d.val # I64Neg(d.val)))
         IN  IF beyond THEN QNotNumber
             ELSE [kind |-> "int",
                   positive |-> ~neg /\ d.val # I64(0),
                   val |-> IF neg THEN I64Neg(d.val) ELSE d.val]

\* what a query string can say for page or limit, with what the text denotes
Absent == [text |-> Null, class |-> "absent", value |-> I64(0)]
Garbled(s) == [text |-> Some(s), class |-> "unparsable", value |-> I64(0)]
NotPositive(s) == [text |-> Some(s), class |-> "not positive", value |-> I64(0)]
Number(s, v) == [text |-> Some(s), class |-> "number", value |-> v]

\* 4611686018427387905 and 99999999999999999999
HugeText ==
    <<"4", "6", "1", "1", "6", "8", "6", "0", "1", "8", "4", "2", "7", "3", "8", "7", "9",
      "0", "5">>
TooLongText == [i \in 1..20 |-> "9"]

PageQueries ==
    {Absent, Garbled(<<>>), Garbled(<<"2", "a">>), Garbled(TooLongText),
     NotPositive(<<"0">>), NotPositive(<<"-", "3">>),
     Number(<<"2">>, I64(2)), Number(<<"+", "3">>, I64(3)), Number(HugeText, QHuge.val)}

LimitQueries ==
    {Absent, Garbled(<<"x">>), NotPositive(<<"0">>), Number(<<"2">>, I64(2))}

\* getAll<Entity> from the query string to the page query of List
ListQuery(c) ==
    /\ ops = 0
    /\ \E p \in PageQueries, l \in LimitQueries :
          ListPageWith(c, [pageParam |-> Atoi(DefaultQuery(p.text, Itoa(DefaultPage))),
                           limitParam |-> Atoi(DefaultQuery(l.text, Itoa(DefaultLimit))),
                           filter |-> <<>>, search |-> <<>>,
                           pageQuery |-> p, limitQuery |-> l])
    /\ UNCHANGED ctx

InitPage ==
    /\ InitCommon
    /\ table \in InitTables(ent, ApiShapes)
    /\ nextId = Cardinality(table) + 1
    /\ calls = [c \in {1} |-> Idle]
    /\ result = [c \in {1} |-> NoResult]

NextPage == \E c \in Clients : ListQuery(c) \/ ListCount(c)

SpecPage == InitPage /\ [][NextPage]_vars

----------------------------------------------------------------------------
(* Properties of the repositories *)

\* the step in which client c's Update returns success
UpdateSucceeds(c) ==
    /\ calls[c].pc = "commit" /\ calls[c].op = "update"
    /\ calls'[c].pc = "idle" /\ result'[c].err = NoErr

\* the target row afterwards: the supplied fields hold the request's values, every
\* other column and created_at are as before; every other row is as before
ExactlySuppliedChange(req) ==
    /\ Cardinality(table') = Cardinality(table)
    /\ \A r \in table :
         IF r.id = req.id
         THEN \E n \in table' :
                /\ n.id = r.id /\ n.created_at = r.created_at
                /\ \A col \in Cols(ent) :
                     n.cols[col] = IF col \in DOMAIN req.fields
                                   THEN Some(req.fields[col]) ELSE r.cols[col]
         ELSE r \in table'

\* C1: in every repository a successful Update that carries at least one non-null
\* field changes exactly the supplied fields of the target row and its updated_at;
\* every other field of the row, created_at included, and every other row stay.
C1_UpdateChangesExactlySupplied ==
    [][\A c \in Clients :
         UpdateSucceeds(c) /\ DOMAIN calls[c].req.fields # {}
            => ExactlySuppliedChange(calls[c].req)]_vars

\* C1, outside attendances: the same frame holds in the five other repositories
C1_UpdateFrameExceptAttendance ==
    [][\A c \in Clients :
         UpdateSucceeds(c) /\ DOMAIN calls[c].req.fields # {} /\ ent # "attendances"
            => ExactlySuppliedChange(calls[c].req)]_vars

C1_Witness ==
    \E c \in Clients :
        /\ result[c].op = "update" /\ result[c].err = NoErr
        /\ ent = "tasks" /\ DOMAIN result[c].req.fields = {"title"}
        /\ \E r \in table : r.id = result[c].req.id /\ r.updated_at = 2 /\ r.created_at = 1

\* C2: in every repository an Update with a valid id and no non-null field fails
\* with "no fields to update" and mutates no row.
C2_EmptyUpdateRejected ==
    /\ [](\A c \in Clients :
            result[c].op = "update" /\ result[c].req.id # 0 /\ DOMAIN result[c].req.fields = {}
               => result[c].err = ErrNoFields)
    /\ [][\A c \in Clients :
            calls[c].op = "update" /\ DOMAIN calls[c].req.fields = {} => table' = table]_vars

\* C2, outside attendances: the empty Update is rejected before any statement
C2_EmptyUpdateRejectedExceptAttendance ==
    \A c \in Clients :
        /\ result[c].op = "update" /\ result[c].req.id # 0
           /\ DOMAIN result[c].req.fields = {} /\ ent # "attendances"
              => result[c].err = ErrNoFields /\ result[c].stmts = 0
        /\ calls[c].op = "update" /\ ent # "attendances" => DOMAIN calls[c].req.fields # {}

C2_Witness ==
    \E c \in Clients :
        /\ result[c].op = "update" /\ result[c].err = ErrNoFields
        /\ \E r \in table : r.id = result[c].req.id

\* the operation client c is running in this step
StepOp(c) == IF calls[c].pc # "idle" THEN calls[c].op ELSE result'[c].op

\* C3: Create and Update are all-or-nothing: a step of either call that is not its
\* successful return leaves the table as it was, so a call that returns an error
\* (transaction start, statement, zero rows, scan, commit) has written nothing.
C3_AllOrNothing ==
    [][\A c \in Clients :
         /\ <<calls[c], result[c]>>' # <<calls[c], result[c]>>
         /\ StepOp(c) \in {"create", "update"}
         /\ ~(calls'[c].pc = "idle" /\ result'[c].err = NoErr)
         => table' = table]_vars

C3_Witness ==
    \E c \in Clients :
        /\ result[c].op \in {"create", "update"}
        /\ result[c].err = Wrap("commit failed", DbFailure)
        /\ result[c].stmts = 1

\* the step in which client c's Delete runs, and the id it is given
DeleteStep(c) == ops' # ops /\ result'[c].op = "delete"

\* C4 as stated: Delete of an id that has no row fails with the not-found error and
\* changes nothing; Delete of an existing id removes exactly that row, and every
\* later Get by that id returns not-found.  (Store failures are left aside.)
C4_DeleteMissingIsNotFound ==
    [][\A c \in Clients :
         DeleteStep(c) /\ result'[c].err # PostgresError(DbFailure)
            => LET id == result'[c].req.id
               IN  IF \E r \in table : r.id = id
                   THEN result'[c].err = NoErr /\ table' = {r \in table : r.id # id}
                   ELSE result'[c].err = ErrNotFound(ent) /\ table' = table]_vars

\* C4, with the zero id told apart: Delete(0) fails with "ID is required for
\* deletion" before any statement; Delete of a non-zero id without a row fails with
\* "no <entity> found with ID" and changes nothing; Delete of an existing id removes
\* exactly that row, unless the statement itself fails, which changes nothing; a
\* deleted id is in no row again and every later Get by it returns the store's
\* no-rows error (or the failure of its own query).
C4_DeleteContract ==
    /\ [][\A c \in Clients :
            DeleteStep(c)
               => LET id == result'[c].req.id
                      err == result'[c].err
                  IN  IF id = 0
                      THEN err = ErrIDRequired(ent, "deletion") /\ result'[c].stmts = 0
                           /\ table' = table
                      ELSE IF err = PostgresError(DbFailure) THEN table' = table
                      ELSE IF \E r \in table : r.id = id
                      THEN err = NoErr /\ table' = {r \in table : r.id # id}
                      ELSE err = ErrNotFound(ent) /\ table' = table]_vars
    /\ [](\A r \in table : r.id \notin deleted)
    /\ [](\A c \in Clients :
            result[c].op = "get" /\ DOMAIN result[c].req = {"id"}
            /\ result[c].req["id"] \in deleted
               => result[c].err \in {PostgresError(ErrNoRows), PostgresError(DbFailure)})

C4_Witness ==
    \E c \in Clients :
        /\ result[c].op = "get" /\ DOMAIN result[c].req = {"id"}
        /\ result[c].req["id"] \in deleted
        /\ result[c].err = PostgresError(ErrNoRows)
        /\ table # {}

\* C5: a successful Create followed by Get with the returned id, the row not
\* updated in between, returns the record Create returned: required and supplied
\* optional fields equal the request (the user's password as its hash), unsupplied
\* optional fields are null, and id, created_at and updated_at are populated.
C5_CreateGetRoundTrip ==
    \A c \in Clients :
        /\ result[c].op = "get" /\ result[c].err = NoErr
        /\ result[c].data.id \in DOMAIN created
        /\ result[c].data.id \notin touched
        => LET made == created[result[c].data.id]
               got == result[c].data
           IN  /\ got = made.row
               /\ \A col \in DOMAIN made.req.vals : got.cols[col] = made.req.vals[col]
               /\ \A col \in UnsetCols(ent) : IsNull(got.cols[col])
               /\ ent = "users" =>
                    \E salt \in Salts : got.cols["hashed_password"] = Some(Bcrypt(made.req.password, salt))
               /\ got.id > 0 /\ got.created_at \in 1..MaxClock
               /\ got.updated_at \in got.created_at..MaxClock

C5_Witness ==
    \E c \in Clients :
        /\ result[c].op = "get" /\ result[c].err = NoErr
        /\ result[c].data.id \in DOMAIN created
        /\ \E col \in OptionalCols(ent) : ~IsNull(result[c].data.cols[col])
        /\ \E col \in OptionalCols(ent) : IsNull(result[c].data.cols[col])

\* C6: in every repository Get with an empty filter map fails with the
\* invalid-argument error "at least one filter parameter is required" and executes
\* no query.
C6_GetEmptyFilterRejected ==
    \A c \in Clients :
        result[c].op = "get" /\ DOMAIN result[c].req = {}
           => result[c].err = ErrFilterRequired /\ result[c].stmts = 0

C6_Witness ==
    \E c \in Clients :
        /\ result[c].op = "get" /\ DOMAIN result[c].req = {}
        /\ result[c].err = ErrFilterRequired /\ table # {}

----------------------------------------------------------------------------
(* Properties of the list endpoints *)

\* a List that returned a response
Listed(c) == result[c].op = "list" /\ result[c].err = NoErr

RECURSIVE SumLen(_)
SumLen(pages) == IF pages = <<>> THEN 0 ELSE Len(Head(pages)) + SumLen(Tail(pages))

\* the limit of the walk in progress
WalkLimit == I64Value(PaginationParam(walk.params.limitParam, DefaultLimit))

\* C7: for a fixed filter and search text over an unchanging table, walking List
\* page by page returns every matching row exactly once: no item is on two pages,
\* and once the pages cover the total their item counts sum to it; rows that share
\* a created_at included.
C7_WalkReturnsEachRowOnce ==
    walk.pages # <<>> =>
        /\ \A i, j \in 1..Len(walk.pages) :
             i < j => \A a \in 1..Len(walk.pages[i]), b \in 1..Len(walk.pages[j]) :
                        walk.pages[i][a] # walk.pages[j][b]
        /\ Len(walk.pages) * WalkLimit >= walk.total => SumLen(walk.pages) = walk.total

\* C7, the part that holds: the item counts of the pages sum to the total
C7_PageCountsSumToTotal ==
    walk.pages # <<>> /\ Len(walk.pages) * WalkLimit >= walk.total
        => SumLen(walk.pages) = walk.total

C7_Witness ==
    /\ Len(walk.pages) = 2 /\ walk.total = 2
    /\ walk.pages[1] # <<>> /\ walk.pages[1] = walk.pages[2]

\* C8: the total List returns counts exactly the rows that satisfy the equality
\* filters and the search predicate of the page query, whatever limit and offset;
\* with an empty search text neither query has a search predicate.
C8_TotalCountsPagePredicate ==
    \A c \in Clients :
        Listed(c) =>
            LET req == result[c].req
                paged == PageWhere(ent, table, req.filter, req.search)
                items == result[c].data.items
            IN  /\ result[c].data.total = Cardinality(paged)
                /\ \A i \in 1..Len(items) : \E r \in paged : items[i] = ScanListed(ent, r)
                /\ req.search = <<>> =>
                     result[c].data.total = Cardinality(WhereEq(table, req.filter))

C8_Witness ==
    \E c \in Clients :
        /\ Listed(c) /\ result[c].req.search # <<>> /\ DOMAIN result[c].req.filter # {}
        /\ result[c].data.total = 1 /\ Len(result[c].data.items) = 1
        /\ Cardinality(WhereEq(table, result[c].req.filter)) = 2

\* the items page p of limit L holds when n rows match: min(L, max(0, n - (p-1)*L));
\* a page number past 2^24 skips more rows than any table here holds
ExpectedItems(page, limit, n) ==
    LET skipped == IF I64Small(I64Dec(page)) THEN I64Value(I64Dec(page)) * limit ELSE n
        left == IF n - skipped > 0 THEN n - skipped ELSE 0
    IN  IF limit < left THEN limit ELSE left

\* C9: listing page p with limit L when N rows match returns
\* min(L, max(0, N - (p-1)*L)) items and total = N.
C9_PageSize ==
    \A c \in Clients :
        Listed(c) =>
            LET req == result[c].req
                n == Cardinality(PageWhere(ent, table, req.filter, req.search))
            IN  /\ Len(result[c].data.items) = ExpectedItems(req.page, I64Value(req.limit), n)
                /\ result[c].data.total = n

\* C9, the part that holds: the same, for the page numbers whose offset does not
\* leave the range of the handler's int
C9_PageSizeWithoutOverflow ==
    \A c \in Clients :
        Listed(c) /\ I64Small(result[c].req.page) =>
            LET req == result[c].req
                n == Cardinality(PageWhere(ent, table, req.filter, req.search))
            IN  /\ Len(result[c].data.items) = ExpectedItems(req.page, I64Value(req.limit), n)
                /\ result[c].data.total = n

C9_Witness ==
    \E c \in Clients :
        /\ Listed(c) /\ result[c].req.pageParam = QInt(2) /\ result[c].req.limitParam = QInt(1)
        /\ Len(result[c].data.items) = 1 /\ result[c].data.total = 2

\* C10 as stated: List returns its items by created_at descending; for attendances
\* by created_at descending and then intime descending.
C10_OrderedByCreatedAt ==
    \A c \in Clients :
        Listed(c) =>
            LET items == result[c].data.items
            IN  \A i, j \in 1..Len(items) :
                  i < j =>
                    \/ items[i].created_at > items[j].created_at
                    \/ /\ items[i].created_at = items[j].created_at
                       /\ ent = "attendances" =>
                            Unwrap(items[i].cols["intime"]) >= Unwrap(items[j].cols["intime"])

\* C10, with the attendance order as the repository has it: List returns its items
\* by created_at descending, except attendances, which come by date descending and
\* then intime descending and in no order of created_at.
C10_OrderedBySortColumns ==
    \A c \in Clients :
        Listed(c) =>
            LET items == result[c].data.items
            IN  \A i, j \in 1..Len(items) :
                  i < j =>
                    IF ent = "attendances"
                    THEN \/ Unwrap(items[i].cols["date"]) > Unwrap(items[j].cols["date"])
                         \/ /\ items[i].cols["date"] = items[j].cols["date"]
                            /\ Unwrap(items[i].cols["intime"]) >= Unwrap(items[j].cols["intime"])
                    ELSE items[i].created_at >= items[j].created_at

C10_Witness ==
    \E c \in Clients :
        /\ Listed(c) /\ ent = "attendances" /\ Len(result[c].data.items) = 2
        /\ LET a == result[c].data.items[1]
               b == result[c].data.items[2]
           IN  /\ a.cols["date"] = b.cols["date"]
               /\ Unwrap(a.cols["intime"]) > Unwrap(b.cols["intime"])
               /\ a.created_at < b.created_at

----------------------------------------------------------------------------
(* Properties of authentication and authorization *)

\* AuthContext has run on the request
Authenticated == ctx.index >= 2

\* C11: whatever token a request under /v1 carries (none, malformed, wrongly
\* signed, expired, valid), AuthContext calls the next handler exactly once and
\* never aborts the request; when the token is missing or does not parse, no
\* identity data is set.
C11_AuthFailOpen ==
    Authenticated =>
        /\ ctx.auth.nexts = 1
        /\ ~ctx.auth.aborted
        /\ (ctx.auth.token = <<>> \/ ctx.auth.err # NoErr) => IsNull(ctx.auth.keys)

\* a request with an expired token has reached its handler
C11_Witness ==
    /\ ctx.handled = 1
    /\ ctx.auth.parsed
    /\ ctx.auth.err = ErrTokenExpiredOrNotValidYet
    /\ ctx.auth.nexts = 1

\* the token does not have three segments, or its header or claims do not decode
MalformedToken(tok) ==
    \/ Len(Split(tok)) # 3
    \/ IsNull(DecodeHeader(Split(tok)[1]))
    \/ IsNull(DecodeClaims(Split(tok)[2]))

\* the token parses and names an HMAC method
WellFormedToken(tok) ==
    /\ ~MalformedToken(tok)
    /\ IsHMAC(Unwrap(DecodeHeader(Split(tok)[1])).alg)

\* a well-formed token whose signature was not made with the server's key
BadSignature(tok) == WellFormedToken(tok) /\ Split(tok)[3] # SignedWith(JwtSecret)

\* C12 as stated: ParseJwtToken returns ErrValidationErrorMalformed whenever the
\* token is malformed or its signature is invalid.
C12_MalformedOrBadSignatureIsMalformed ==
    (ctx.auth.parsed /\ (MalformedToken(ctx.auth.token) \/ BadSignature(ctx.auth.token)))
        => ctx.auth.err = ErrValidationErrorMalformed

\* C12, amended: ParseJwtToken returns ErrValidationErrorMalformed whenever the
\* token is malformed; a well-formed token with an invalid signature gets the
\* expired-or-inactive error when it is also expired or not yet valid, and the
\* generic "Couldn't handle this token" error otherwise.
C12_MalformedIsMalformed ==
    /\ (ctx.auth.parsed /\ MalformedToken(ctx.auth.token))
          => ctx.auth.err = ErrValidationErrorMalformed
    /\ (ctx.auth.parsed /\ BadSignature(ctx.auth.token))
          => ctx.auth.err \in {ErrTokenExpiredOrNotValidYet, ErrCouldNotHandle}

\* a three-segment token with claims that do not decode was parsed
C12_Witness ==
    /\ ctx.auth.parsed
    /\ Len(Split(ctx.auth.token)) = 3
    /\ MalformedToken(ctx.auth.token)
    /\ ctx.auth.err = ErrValidationErrorMalformed

\* the token's exp has passed or its nbf has not come at time t
ExpiredOrNotYetValid(tok, t) ==
    LET claims == Unwrap(DecodeClaims(Split(tok)[2])) IN
    \/ NumberClaim(claims, "exp") # 0 /\ t > NumberClaim(claims, "exp")
    \/ NumberClaim(claims, "nbf") # 0 /\ t < NumberClaim(claims, "nbf")

TokenClaims == Unwrap(DecodeClaims(Split(ctx.auth.token)[2]))

\* C14: after a successful parse the identity data set in the context is exactly
\* the token's claims that have string values, with those values; claims with other
\* values are dropped; nothing is set when the token has no claims.
C14_StringClaimsAttached ==
    (ctx.auth.parsed /\ ctx.auth.err = NoErr) =>
        IF DOMAIN TokenClaims = {} THEN IsNull(ctx.auth.keys)
        ELSE /\ ~IsNull(ctx.auth.keys)
             /\ DOMAIN Unwrap(ctx.auth.keys)
                  = {k \in DOMAIN TokenClaims : TokenClaims[k].type = "string"}
             /\ \A k \in DOMAIN Unwrap(ctx.auth.keys) :
                   Unwrap(ctx.auth.keys)[k] = TokenClaims[k].v

\* a token with string and number claims was parsed: sub and type are set, exp and
\* iat are not
C14_Witness ==
    /\ ctx.auth.parsed
    /\ ctx.auth.err = NoErr
    /\ DOMAIN TokenClaims = {"sub", "type", "exp", "iat"}
    /\ ctx.auth.keys = Some([sub |-> "u1", type |-> "user"])

HasPrefix(s, prefix) == Len(s) >= Len(prefix) /\ SubSeq(s, 1, Len(prefix)) = prefix

\* C15 as stated: the token is the token parameter when that is not empty;
\* otherwise the Authorization header without a leading "Bearer ", or the whole
\* header when it has no such prefix; the request is token-less only when both are
\* empty.
C15_TokenFromQueryOrHeader ==
    Authenticated =>
        LET q == ctx.req.query
            h == ctx.req.header
        IN  /\ ctx.auth.token =
                  IF q # <<>> THEN q
                  ELSE IF HasPrefix(h, Bearer) THEN SubSeq(h, Len(Bearer) + 1, Len(h))
                  ELSE h
            /\ ~ctx.auth.parsed => (q = <<>> /\ h = <<>>)

\* C15, what the code does: the token parameter when not empty; otherwise, for a
\* header longer than seven bytes, the header without its "Bearer " prefix, or the
\* whole header when "Bearer " does not occur in it; no token when both are empty.
C15_TokenFromQueryOrLongHeader ==
    Authenticated =>
        LET q == ctx.req.query
            h == ctx.req.header
        IN  /\ q # <<>> => ctx.auth.token = q
            /\ (q = <<>> /\ Len(h) > BearerLen /\ HasPrefix(h, Bearer))
                  => ctx.auth.token = SubSeq(h, Len(Bearer) + 1, Len(h))
            /\ (q = <<>> /\ Len(h) > BearerLen /\ ~Contains(h, Bearer))
                  => ctx.auth.token = h
            /\ (q = <<>> /\ h = <<>>) => ~ctx.auth.parsed

\* a request with no token parameter and a three-byte Authorization header was
\* treated as token-less
C15_Witness ==
    /\ Authenticated
    /\ ctx.req.query = <<>>
    /\ ctx.req.header = <<"a", "b", "c">>
    /\ ~ctx.auth.parsed
    /\ ctx.handled = 1

\* the role the request's identity data names, "" for an anonymous caller
CallerRole ==
    IF ~IsNull(ctx.auth.keys) /\ "role" \in DOMAIN Unwrap(ctx.auth.keys)
    THEN Unwrap(ctx.auth.keys).role ELSE ""

\* a policy permits the caller's role on the route's path and method
PolicyMatches ==
    <<CallerRole, PolicyPath(ent), Unwrap(ctx.route).method>> \in router.policies

\* C16: no enforcement check runs on any route: once AuthContext has passed a
\* request on, the route's handler is the next to run or has run, whatever the
\* caller's role and the policies.
C16_AuthorizationNeverBlocks ==
    Authenticated =>
        \/ Running \in Ops /\ ctx.handled = 0
        \/ Running = "done" /\ ctx.handled = 1

\* an anonymous DELETE that no policy permits has been handled
C16_Witness ==
    /\ ctx.handled = 1
    /\ Unwrap(ctx.route).method = "DELETE"
    /\ CallerRole = ""
    /\ ~PolicyMatches

\* the registrar has returned with the five routes and a log entry per failure
Registered ==
    /\ router.pc = "serving"
    /\ Cardinality(router.routes) = 5
    /\ {r.method : r \in router.routes} = {"POST", "GET", "PUT", "DELETE"}
    /\ router.logged = Policies(ent) \ router.policies

\* C17 as stated: a failing AddPolicy is logged and not fatal; when startup is
\* over, all five routes of the entity are registered whichever AddPolicy calls
\* failed.
C17_PolicyFailureNonFatal == router.pc # "start" => Registered

\* C17 for a registrar that is given an enforcer
C17_PolicyFailureNonFatalWithEnforcer ==
    (router.pc # "start" /\ router.enforcer # "nil") => Registered

\* the registrar NewRouter calls has panicked in AddPolicy with no route registered
C17_Witness ==
    /\ router.pc = "panicked"
    /\ router.enforcer = "nil"
    /\ router.routes = {}
----------------------------------------------------------------------------
(* Properties of the handlers' answers *)

\* the status the handler answers with for client c's finished repository call
Answer(c) == HandlerStatus(ent, result[c].op, result[c].err)

\* repository errors of no kind the handlers know: the store failed
PersistenceErrors ==
    {DbFailure, ScanFailure, Wrap("transaction start failed", DbFailure),
     Wrap("commit failed", DbFailure)}

\* C18: for every entity, a Get that matched no row and an Update or Delete that
\* affected no row are answered 404, and a repository error of no recognised kind
\* is answered 500.
C18_NotFoundIs404 ==
    \A c \in Clients :
        /\ (result[c].op = "get" /\ result[c].err = ErrNoRows)
              => Answer(c) = StatusNotFound
        /\ (result[c].op \in {"update", "delete"} /\ result[c].err = ErrNotFound(ent))
              => Answer(c) = StatusNotFound
        /\ (result[c].op \in {"get", "update", "delete"} /\ result[c].err \in PersistenceErrors)
              => Answer(c) = StatusInternalServerError

\* an attendance Delete found no row with the id and is answered 404
C18_Witness ==
    \E c \in Clients :
        /\ ent = "attendances"
        /\ result[c].op = "delete"
        /\ result[c].req.id # 0
        /\ result[c].err = ErrNotFound(ent)
        /\ \A r \in table : r.id # result[c].req.id
        /\ Answer(c) = StatusNotFound

\* the update handler got "no fields to update" from the repository
NoFieldsReturned ==
    ctx.handled = 1 /\ ctx.req.op = "update" /\ \E c \in Clients : result[c].err = ErrNoFields

DuplicateUserStep(c) ==
    /\ ent = "users"
    /\ calls[c].pc = "exec" /\ calls[c].op = "create"
    /\ calls'[c].pc = "idle"
    /\ UniqueConflict(ent, [calls[c].row EXCEPT !.id = nextId], table)
    /\ result'[c].err \in {UniqueViolation, ErrorConflict}

\* C20 as stated: a user Create that violates a uniqueness constraint returns the
\* conflict error, inserts no row and is answered 400.
C20_DuplicateUserIsConflict ==
    [][\A c \in Clients :
         DuplicateUserStep(c) =>
            /\ result'[c].err = ErrorConflict
            /\ table' = table
            /\ HandlerStatus(ent, "create", result'[c].err) = StatusBadRequest]_vars

\* C20, what the code does: the Create returns the driver's error as it is, with
\* code 23505 and the duplicate-key message, inserts no row and is answered 400.
C20_DuplicateUserIs400 ==
    [][\A c \in Clients :
         DuplicateUserStep(c) =>
            /\ result'[c].err = UniqueViolation
            /\ table' = table
            /\ HandlerStatus(ent, "create", result'[c].err) = StatusBadRequest]_vars

\* a user Create with the email and phone of an existing row has returned the
\* driver's unique-violation error
C20_Witness ==
    \E c \in Clients :
        /\ ent = "users"
        /\ result[c].op = "create"
        /\ result[c].err = UniqueViolation
        /\ result[c].err # ErrorConflict
        /\ \E r \in table : r.cols["email"] = result[c].req.vals["email"]

----------------------------------------------------------------------------
(* Properties of the handlers over the repositories *)

\* the step in which a handler writes its answer
AnswerStep == ctx' # ctx /\ ctx'.handled = 1

\* the answer reports a failure of the store
StoreFailure(x) ==
    ~IsNull(x.logged) /\ \E i \in 1..Len(Unwrap(x.logged)) : Unwrap(x.logged)[i] = "connection failure"

\* a PUT on a user whose body binds, with a valid id
UserPut(x) ==
    /\ ent = "users"
    /\ x.req.op = "update"
    /\ x.req.id.ok /\ x.req.id.n > 0
    /\ x.req.body.kind = "json"

\* ... whose body is a password and nothing else
PasswordOnlyPut(x) ==
    UserPut(x) /\ DOMAIN x.req.body.fields = {} /\ HashesPassword(x.req.body)

\* the row differs from the old one in hashed_password and at most the timestamps
OnlyHashChanged(old, new) ==
    /\ new.id = old.id /\ new.created_at = old.created_at
    /\ new.cols["hashed_password"] # old.cols["hashed_password"]
    /\ \A col \in DOMAIN old.cols \ {"hashed_password"} : new.cols[col] = old.cols[col]

\* C21: a PUT /v1/users/{id} for an existing user whose body supplies only a password
\* is answered 200 (unless the store fails), and afterwards the user's hashed_password
\* differs from before while every other column but the timestamps is unchanged
C21_PasswordOnlyUpdateSucceeds ==
    [][(AnswerStep /\ PasswordOnlyPut(ctx') /\ ~StoreFailure(ctx')
          /\ \E r \in table : r.id = ctx'.req.id.n)
        => /\ ctx'.status = StatusOK
           /\ \A r \in table : r.id = ctx'.req.id.n
                 => \E n \in table' : OnlyHashChanged(r, n)]_vars

\* C21, what the code does: a user PUT whose body has no role is answered 500 without
\* an envelope and leaves the table alone, whatever else the body has; with a role
\* and a password, an answer of 200 leaves the new hash in the row, the role
\* GetUserRole returned, and every other column as it was
C21_UpdateWithoutRolePanics ==
    [][(AnswerStep /\ UserPut(ctx'))
        => IF "role" \notin DOMAIN ctx'.req.body.fields
           THEN /\ ctx'.status = StatusInternalServerError
                /\ IsNull(ctx'.body)
                /\ table' = table
           ELSE (ctx'.status = StatusOK /\ HashesPassword(ctx'.req.body))
                  => \A r \in table : r.id = ctx'.req.id.n
                        => \E n \in table' :
                              /\ n.id = r.id
                              /\ n.cols["hashed_password"]
                                    \in {Some(Bcrypt(Unwrap(ctx'.req.body.password), s)) : s \in Salts}
                              /\ n.cols["role"] \in {Some(ro) : ro \in UserRoles}
                              /\ \A col \in DOMAIN r.cols \ {"hashed_password", "role"} :
                                    n.cols[col] = r.cols[col]]_vars

C21_Witness ==
    /\ ctx.handled = 1
    /\ PasswordOnlyPut(ctx)
    /\ ctx.req.body.password = Some(NewPassword)
    /\ \E r \in table : r.id = ctx.req.id.n
    /\ ctx.status = StatusInternalServerError
    /\ IsNull(ctx.body)

\* the rows of a success envelope's data
DataRecords(x) ==
    LET d == Unwrap(Unwrap(x.body).data)
    IN  IF x.req.op = "list" THEN {d.items[i] : i \in 1..Len(d.items)} ELSE {d}

\* the hashes the store holds or has handed out
StoredHashes ==
    {r.cols[h] : r \in table \cup {created[i].row : i \in DOMAIN created},
                 h \in JsonHidden("users")} \ {Null}

\* the same store with other hashes
ScrubRow(row) ==
    [row EXCEPT !.cols = [col \in DOMAIN @ |->
                            IF col = "hashed_password" THEN Some(<<"other">>)
                            ELSE IF col = "hashed_refresh_token" THEN Some(<<"token">>)
                            ELSE @[col]]]

ScrubData(op, data) ==
    CASE op \in {"create", "get"} -> ScrubRow(data)
      [] op = "list" -> [data EXCEPT !.items = [i \in DOMAIN @ |-> ScrubRow(@[i])]]
      [] OTHER -> data

\* C22: no response of a user endpoint (create, get, list, update, delete) carries the
\* stored hashed_password or hashed_refresh_token: the body has no such key and no such
\* value, and it is the body the same request gets from a store that differs only in
\* those two columns
C22_UserResponsesHideHashes ==
    (ent = "users" /\ ctx.handled = 1 /\ ~IsNull(ctx.body)) =>
        /\ ~IsNull(Unwrap(ctx.body).data) =>
              \A rec \in DataRecords(ctx) :
                 /\ DOMAIN rec \cap JsonHidden("users") = {}
                 /\ \A k \in DOMAIN rec \ {"id", "created_at", "updated_at"} :
                       rec[k] \notin StoredHashes
        /\ ctx.status < 400 =>
              \A c \in Clients :
                 ctx.body = ResponseFor(ent, ctx.req.op, result[c].err,
                                        ScrubData(ctx.req.op, result[c].data)).body
        /\ ctx.status >= 400 => IsNull(Unwrap(ctx.body).data)

C22_Witness ==
    /\ ent = "users"
    /\ ctx.handled = 1
    /\ ctx.req.op = "get"
    /\ ctx.status = StatusOK
    /\ \E r \in table :
          /\ r.id = ctx.req.id.n
          /\ r.cols["hashed_password"] \in StoredHashes
          /\ Unwrap(Unwrap(ctx.body).data)["email"] = r.cols["email"]

\* the required fields of the entity as a create body names them
RequiredFields(e) ==
    (RequiredCols(e) \ {"hashed_password"}) \cup (IF e = "users" THEN {"password"} ELSE {})

\* a POST whose body binds and has no value for required field f
CreateLacks(x, f) ==
    /\ x.req.op = "create"
    /\ x.req.body.kind = "json"
    /\ IsZeroField(x.req.body.req, f)

\* the message names field f
Names(msg, f) == \E i \in 2..Len(msg) : msg[i] = f

\* C23: a create request that lacks a required field of its entity is answered 400
\* with a message that names the missing required fields; the repository's Create is
\* not invoked (no statement, no id drawn) and no row is inserted
C23_MissingRequiredIs400 ==
    [][\A f \in RequiredFields(ent) :
          (AnswerStep /\ CreateLacks(ctx', f))
            => /\ ctx'.status = StatusBadRequest
               /\ ~IsNull(ctx'.body)
               /\ Names(Unwrap(Unwrap(ctx'.body).custom_message), f)
               /\ calls' = calls /\ result' = result
               /\ table' = table /\ nextId' = nextId]_vars

C23_Witness ==
    /\ ent = "tasks"
    /\ ctx.handled = 1
    /\ CreateLacks(ctx, "title")
    /\ \A f \in RequiredFields(ent) \ {"title"} : ~IsZeroField(ctx.req.body.req, f)
    /\ ctx.status = StatusBadRequest
    /\ \A c \in Clients : result[c] = NoResult
    /\ table = {}

\* a step in which client c's repository call returns an error and the handler answers
\* it with a detail: every error answer but the 404 ones passes err.Error() as data
FailureAnswered(c) ==
    /\ AnswerStep
    /\ calls'[c].pc = "idle"
    /\ calls' # calls \/ result' # result
    /\ result'[c].err # NoErr
    /\ ctx'.status >= StatusBadRequest
    /\ ctx'.status # StatusNotFound

\* the envelope holds the text somewhere
EnvelopeCarries(body, text) ==
    ~IsNull(body) /\ (Unwrap(body).data = Some(text) \/ Unwrap(body).custom_message = Some(text))

----------------------------------------------------------------------------
(* Properties of the repositories under two request goroutines *)

\* the row of that id, as a set
RowOf(t, id) == {r \in t : r.id = id}

\* C25: updated_at is refreshed on every successful mutation: when an Update of a row
\* commits, also one that overlaps another Update of the same row, the row's stored
\* updated_at is not earlier than the value it held before that commit
C25_UpdatedAtNeverGoesBack ==
    [][\A c \in Clients :
         UpdateSucceeds(c)
            => \A r \in RowOf(table, calls[c].req.id), n \in RowOf(table', calls[c].req.id) :
                  n.updated_at >= r.updated_at]_vars

\* C25, what every committed Update does: the row's updated_at becomes the time the
\* Update read when it built its clauses, before it opened its transaction
C25_UpdatedAtIsTimeOfStart ==
    [][\A c \in Clients :
         UpdateSucceeds(c)
            => /\ RowOf(table', calls[c].req.id) # {}
               /\ \A n \in RowOf(table', calls[c].req.id) :
                     n.updated_at = calls[c].clauses.updated_at /\ n.updated_at <= now]_vars

\* both clients' Updates of one row have committed, and the row carries the time of
\* the Update that started first: it committed last, over the later time of the other
C25_Witness ==
    /\ ops = 2
    /\ \A c \in Clients : calls[c] = Idle /\ result[c].op = "update" /\ result[c].err = NoErr
    /\ result[1].req.id = result[2].req.id
    /\ now = 2
    /\ \E r \in RowOf(table, result[1].req.id) : r.updated_at = 1

\* the ids of the rows of a table
Ids(t) == {r.id : r \in t}

\* the rows open Creates have inserted and not yet committed
Inserted == {calls[c].row : c \in {x \in Clients : calls[x].pc = "commit" /\ calls[x].op = "create"}}

\* the step in which client c's Update returns
UpdateReturns(c) ==
    /\ calls'[c] = Idle
    /\ result'[c].op = "update"
    /\ calls[c] # Idle \/ result'[c] # result[c]

\* C27: every row has a unique numeric id assigned by the store at creation.  Under any
\* interleaving of Create, Update and Delete no two rows, committed or inserted by an
\* open Create, share an id; a step changes the ids of the table only by adding the id
\* the store drew for a committed Create or by removing the id a Delete names, and
\* leaves created_at of every row that stays; a deleted id never has a row again, and
\* an Update addressed to a deleted id never succeeds: once its statement has run it
\* returns the not-found error (or the store's own failure) and no row of that id exists
C27_IdsUniqueAndStable ==
    /\ [](/\ \A r, s \in table \cup Inserted : r.id = s.id => r = s
          /\ \A r \in table \cup Inserted : r.id \in 1..(nextId - 1)
          /\ Ids(table) \cap deleted = {})
    /\ [][/\ \A r \in table : \A n \in RowOf(table', r.id) : n.created_at = r.created_at
          /\ \/ Ids(table') = Ids(table)
             \/ \E c \in Clients :
                   /\ calls[c].pc = "commit" /\ calls[c].op = "create"
                   /\ calls[c].row.id \notin Ids(table) \cup deleted
                   /\ Ids(table') = Ids(table) \cup {calls[c].row.id}
             \/ \E c \in Clients :
                   /\ result'[c].op = "delete" /\ result'[c].err = NoErr
                   /\ Ids(table') = Ids(table) \ {result'[c].req.id}
                   /\ result'[c].req.id \in deleted'
          /\ \A c \in Clients :
                UpdateReturns(c) /\ result'[c].req.id \in deleted
                   => /\ result'[c].err # NoErr
                      /\ RowOf(table', result'[c].req.id) = {}
                      /\ result'[c].stmts = 1
                            => result'[c].err \in {ErrNotFound(ent), PostgresError(DbFailure)}]_vars

\* one client deleted the row while the other's Update of it was open, and the Update
\* came back with the not-found error
C27_Witness ==
    /\ ops = 2
    /\ \E c, d \in Clients :
          /\ result[d].op = "delete" /\ result[d].err = NoErr
          /\ result[c].op = "update" /\ result[c].req.id = result[d].req.id
          /\ result[c].err = ErrNotFound(ent)
          /\ result[c].req.id \in deleted
          /\ RowOf(table, result[c].req.id) = {}
    /\ table # {}

\* both clients' Updates of row id have returned success, client 1's with the i-th of
\* the entity's two columns and client 2's with the other
BothCommitted(id, i) ==
    /\ \A c \in Clients : calls[c] = Idle /\ result[c].op = "update" /\ result[c].err = NoErr
    /\ result[1].req = ConcUpdateReq(ent, id, i)
    /\ result[2].req = ConcUpdateReq(ent, id, 3 - i)

\* the step in which client c's Update commits after client d's Update of the same row,
\* the two having run concurrently: d's Update, which wrote the row last, read the clock
\* after c's did and has committed while c's transaction was open
CommitsOverConcurrent(c, d) ==
    /\ c # d
    /\ UpdateSucceeds(c)
    /\ calls[d] = Idle
    /\ result[d].op = "update" /\ result[d].err = NoErr
    /\ result[d].req.id = calls[c].req.id
    /\ DOMAIN result[d].req.fields \cap DOMAIN calls[c].req.fields = {}
    /\ \E r \in RowOf(table, calls[c].req.id) : calls[c].clauses.updated_at < r.updated_at

\* every field the request supplies holds the request's value in the row
Supplied(row, req) == \A f \in DOMAIN req.fields : row.cols[f] = Some(req.fields[f])

\* C28: in every entity repository two Updates of the same row that supply disjoint
\* sets of fields and run concurrently both take effect: when the second of them
\* commits, each supplied field holds the value of the request that supplied it
C28_ConcurrentUpdatesBothTakeEffect ==
    [][\A c, d \in Clients :
          CommitsOverConcurrent(c, d)
            => \A n \in RowOf(table', calls[c].req.id) :
                  Supplied(n, calls[c].req) /\ Supplied(n, result[d].req)]_vars

\* C28, outside attendances: the five other repositories write only the supplied
\* columns, so both Updates take effect
C28_BothTakeEffectExceptAttendance ==
    [][\A c, d \in Clients :
          CommitsOverConcurrent(c, d) /\ ent # "attendances"
            => /\ RowOf(table', calls[c].req.id) # {}
               /\ \A n \in RowOf(table', calls[c].req.id) :
                     Supplied(n, calls[c].req) /\ Supplied(n, result[d].req)]_vars

\* two Updates of one attendance, one supplying outtime and one status, ran
\* concurrently (the row carries the earlier clock reading of the one that committed
\* last), both committed, and outtime is NULL
C28_Witness ==
    /\ ent = "attendances"
    /\ ops = 2 /\ now = 2
    /\ \E id \in 1..MaxRows :
          /\ \E i \in 1..2 : BothCommitted(id, i)
          /\ \E r \in RowOf(table, id) :
                /\ r.updated_at = 1
                /\ IsNull(r.cols["outtime"])
                /\ r.cols["status"] = Some(ValOf("status", 2))

\* the step in which client c's List returns its page and total
ListReturns(c) ==
    /\ calls[c].pc = "count"
    /\ calls'[c] = Idle
    /\ result'[c].op = "list" /\ result'[c].err = NoErr

\* C29: in every List result the number of returned items never exceeds the returned
\* total, offset + len(items) <= total, also when Create or Delete calls on the same
\* table run concurrently with the List call
C29_ItemsWithinTotal ==
    [][\A c \in Clients :
          ListReturns(c)
            => I64Value(result'[c].req.offset) + Len(result'[c].data.items)
                  <= result'[c].data.total]_vars

\* C29, what a List result is made of: the items are the page as the table stood when
\* the page query ran, the total is the count as the table stands when the count
\* query runs
C29_TotalIsCountAtReturn ==
    [][\A c \in Clients :
          ListReturns(c)
            => /\ result'[c].data.items = calls[c].row
               /\ result'[c].data.total
                    = Cardinality(CountWhere(ent, table, calls[c].req.filter,
                                             calls[c].req.search))]_vars

\* a List returned two items with a total of one: the other client deleted a row
\* between the page query and the count query
C29_Witness ==
    \E c, d \in Clients :
        /\ result[c].op = "list" /\ result[c].err = NoErr
        /\ Len(result[c].data.items) = 2
        /\ result[c].data.total = 1
        /\ result[d].op = "delete" /\ result[d].err = NoErr
        /\ \E i \in 1..2 : result[c].data.items[i].id = result[d].req.id

----------------------------------------------------------------------------
(* Properties of the list endpoints from the text of the query string *)

\* what GetPaginationParams is to return for a parameter
PaginationValue(q, default) == IF q.class = "number" THEN q.value ELSE I64(default)

\* (page - 1) * limit is within the handler's int
ProductFits(page, limit) ==
    /\ I64CarryOut(I64Dec(page), I64Value(limit), 0, 0) = 0
    /\ ~I64Negative(I64MulSmall(I64Dec(page), I64Value(limit)))

\* a list request has reached the repository
Paged(c) == result[c].op = "list" /\ "pageQuery" \in DOMAIN result[c].req

\* C26: GetPaginationParams returns page 1 when page is absent, unparsable or not
\* positive, limit 10 when limit is absent, unparsable or not positive, and otherwise
\* the parsed values; the offset handed to the repository is (page - 1) * limit and is
\* never negative
C26_PaginationDefaultsAndOffset ==
    \A c \in Clients :
        Paged(c) =>
            LET req == result[c].req
            IN  /\ req.page = PaginationValue(req.pageQuery, DefaultPage)
                /\ req.limit = PaginationValue(req.limitQuery, DefaultLimit)
                /\ ProductFits(req.page, req.limit)
                /\ req.offset = I64MulSmall(I64Dec(req.page), I64Value(req.limit))
                /\ ~I64Negative(req.offset)

\* C26, what the handlers compute: the page and limit are as stated; the offset is
\* (page - 1) * limit whenever that product is within the int, it is never negative,
\* and a product that wrapped below zero is replaced by 0
C26_DefaultsAndWrappedOffset ==
    \A c \in Clients :
        Paged(c) =>
            LET req == result[c].req
                product == I64MulSmall(I64Dec(req.page), I64Value(req.limit))
            IN  /\ req.page = PaginationValue(req.pageQuery, DefaultPage)
                /\ req.limit = PaginationValue(req.limitQuery, DefaultLimit)
                /\ ProductFits(req.page, req.limit) => req.offset = product
                /\ I64Negative(product) => req.offset = I64(0)
                /\ ~I64Negative(req.offset)

\* page=4611686018427387905 with limit=2 reached the repository with offset 0
C26_Witness ==
    \E c \in Clients :
        /\ Paged(c)
        /\ result[c].req.pageQuery = Number(HugeText, QHuge.val)
        /\ result[c].req.limitQuery = Number(<<"2">>, I64(2))
        /\ result[c].req.page = QHuge.val
        /\ result[c].req.offset = I64(0)

----------------------------------------------------------------------------
(* Properties of the identity data a handler reads *)

\* AuthContext found a token and the parser accepted it
ParsedToken == ctx.auth.parsed /\ ctx.auth.err = NoErr

\* C30: after AuthContext has successfully parsed a token for a request,
\* BaseHandler.GetAuthData called by a handler of that request returns the string
\* claims AuthContext attached, with ok = true; for a request without a valid token it
\* returns ok = false
C30_GetAuthDataReturnsClaims ==
    ctx.handled = 1 =>
        IF ParsedToken
        THEN ctx.authData.ok /\ ctx.authData.data = Some(AuthData(ctx.auth.claims))
        ELSE ~ctx.authData.ok

\* C30, what the handler gets: AuthContext stores the identity data under the key of
\* the request-correlation id and GetAuthData reads another key, so it returns
\* ok = false for every request, while the data sits under the key it was stored at
C30_GetAuthDataFindsNothing ==
    ctx.handled = 1 =>
        /\ ctx.authData = NoAuthData
        /\ (ParsedToken /\ ctx.auth.claims # <<>>)
              => ContextValue(GinKeys(ctx.auth), RequestIDHeader)
                    = Some(AuthData(ctx.auth.claims))
        /\ ~(ParsedToken /\ ctx.auth.claims # <<>>) => GinKeys(ctx.auth) = <<>>

\* a request whose token parsed and carried string claims reached its handler, and
\* GetAuthData returned ok = false
C30_Witness ==
    /\ ctx.handled = 1
    /\ ParsedToken
    /\ ctx.auth.keys = Some([sub |-> "u1", type |-> "user"])
    /\ ~ctx.authData.ok

====
